---------------------------- MODULE Spec2Model ----------------------------
(***************************************************************************)
(* A model of the quantitative core of pro-fin: the debt payoff simulator  *)
(* (DebtSnowball), the tax calculator (TaxCalculator) and the Monte Carlo  *)
(* goal engine (MonteCarlo).                                               *)
(*                                                                         *)
(* Numbers.  The source computes in IEEE doubles; the model computes in    *)
(* fixed point on integers, each engine in the unit its section names; a   *)
(* product with a rate is taken exactly and truncated to that unit.        *)
(* Math.round is modelled as what it does (the nearest whole number,       *)
(* halves upwards), never as the identity.  A number in a result that can  *)
(* be NaN or Infinity is a record [kind, v]: Number(n), NaN,               *)
(* PositiveInfinity.                                                       *)
(***************************************************************************)
EXTENDS Integers, Sequences, FiniteSets, TLC

\* -------------------------------------------------------------- arithmetic

Min(a, b) == IF a <= b THEN a ELSE b

Max(a, b) == IF a >= b THEN a ELSE b

\* floor(a * b / c) for a >= 0, b >= 0, c > 0, without forming a * b
MulDiv(a, b, c) == (a \div c) * b + ((a % c) * b) \div c

\* Math.round(num / den) for den > 0: the nearest integer, halves upwards
MathRound(num, den) == (2 * num + den) \div (2 * den)

\* the sum of f[i] over i in 1..Len(f)
RECURSIVE SumSeq(_)
SumSeq(f) == IF f = << >> THEN 0 ELSE Head(f) + SumSeq(Tail(f))

\* Array.prototype.sort with a comparator a.key - b.key: ascending in Key,
\* elements of equal key keep their order (the sort is stable)
SortAsc(s, Key(_)) ==
  LET n == Len(s)
      pos(i) == 1 + Cardinality({j \in 1..n :
                     \/ Key(s[j]) < Key(s[i])
                     \/ Key(s[j]) = Key(s[i]) /\ j < i})
  IN  [p \in 1..n |-> s[CHOOSE i \in 1..n : pos(i) = p]]

\* ------------------------------------------------------------------ state

VARIABLES
  \* DebtSnowball.createPayoffPlan and simulateMinimumPayments
  liabilities,    \* the caller's array of liabilities
  extraPayment,   \* paise
  method,         \* "avalanche" or "snowball"
  dpc,            \* where createPayoffPlan stands
  debts,          \* the simulation's clones, in payoff order
  month,          \* the plan loop's month counter
  monthPlan,      \* the entry pushed onto plan in the latest month
  planLen,        \* plan.length
  minDebts,       \* simulateMinimumPayments' clones
  minMonth,       \* simulateMinimumPayments' month counter
  payoff,         \* what createPayoffPlan returned
  \* TaxCalculator.calculateTax
  taxParams,      \* the params object of the latest call (rupees)
  tpc,            \* "call", "returned", "compared", "regimes"
  taxResult,      \* what the latest call returned
  prevTax,        \* what the call before it returned
  comparison,     \* what compareRegimes returned
  \* MonteCarlo.simulateGoal
  goalParams,     \* the params object (amounts in paise)
  gpc,            \* "run" while the trial loop runs, then "done"
  results,        \* the results array
  trial,          \* the trial loop's i
  portfolio,      \* the running trial's portfolio, in paise
  stepMonth,      \* the running trial's month
  goalResult,     \* what the latest simulateGoal call returned
  prevGoal,       \* what the call before it returned
  \* MonteCarlo.calculateRequiredSIP
  sipParams,      \* the params object (amounts in rupees)
  spc,            \* "call", "returned", "compared"
  sipResult,      \* what the latest call returned
  prevSip,        \* what the call before it returned
  \* MonteCarlo.calculateWindfallImpact and calculateYearsToTarget
  windfallParams, \* the params object (amounts in paise)
  wpc,            \* where calculateWindfallImpact stands
  ytMonths,       \* calculateYearsToTarget's months
  ytValue,        \* calculateYearsToTarget's value, in paise
  monthsWithoutWindfall,  \* what the first calculateYearsToTarget returned
  monthsWithWindfall,     \* what the second one returned
  windfallImpact, \* what calculateWindfallImpact returned
  \* Store.calculateGoalMetrics
  state,          \* Store.state: configuration, entities, goals (paise)
  mpc,            \* where calculateGoalMetrics stands
  dispensableIncome, \* its local of that name, in paise
  \* Inflation.futureValue and presentValue
  inflationArgs,  \* the amount (paise), the years and the rate (percent)
  ipc,            \* "call", "future", "present"
  inflated,       \* what futureValue returned
  deflated,       \* what presentValue returned for it
  \* Store.addGoal and Inflation.adjustGoalForInflation
  goalForm,       \* the goal object passed to addGoal (amounts in paise)
  adjustParams,   \* the params object passed to adjustGoalForInflation
  apc,            \* where addGoal or adjustGoalForInflation stands
  adjusted,       \* what adjustGoalForInflation returned
  \* MonteCarlo.simulatePortfolio
  portfolioArgs,  \* the arguments: assets, years (in 24ths), iterations
  ppc,            \* "run" inside the trial loop, "done" after the return
  pfResults,      \* the results array
  pfTrial,        \* the trial loop's i
  totalValue,     \* the running trial's totalValue
  assetIndex,     \* the asset the running trial is at (from 1)
  assetMonth,     \* the month loop's counter for that asset
  assetValue,     \* that asset's value
  portfolioResult, \* what simulatePortfolio returned
  \* LifeEvents.selectOption
  currentHike,    \* LifeEvents.currentHike: null, or the pending hike
  lpc,            \* where the calls of selectOption stand
  selection       \* the last call: its option, the hike it found, and the
                  \* priority goal's monthlyContribution as it found it

debtVars == << liabilities, extraPayment, method, dpc, debts, month,
               monthPlan, planLen, minDebts, minMonth, payoff >>

taxVars == << taxParams, tpc, taxResult, prevTax, comparison >>

goalVars == << goalParams, gpc, results, trial, portfolio, stepMonth, goalResult,
              prevGoal >>

sipVars == << sipParams, spc, sipResult, prevSip >>

windfallVars == << windfallParams, wpc, ytMonths, ytValue, monthsWithoutWindfall,
                   monthsWithWindfall, windfallImpact >>

storeVars == << state, mpc, dispensableIncome >>

inflationVars == << inflationArgs, ipc, inflated, deflated >>

addGoalVars == << goalForm, adjustParams, apc, adjusted >>

portfolioVars == << portfolioArgs, ppc, pfResults, pfTrial, totalValue,
                   assetIndex, assetMonth, assetValue, portfolioResult >>

lifeVars == << currentHike, lpc, selection >>

vars == << debtVars, taxVars, goalVars, sipVars, windfallVars, storeVars,
           inflationVars,
    addGoalVars,
    portfolioVars,
    lifeVars >>

\* what the operations of one engine leave alone
notDebtVars == << taxVars, goalVars, sipVars, windfallVars, storeVars, inflationVars,
    addGoalVars,
    portfolioVars,
    lifeVars >>

notTaxVars == << debtVars, goalVars, sipVars, windfallVars, storeVars, inflationVars,
    addGoalVars,
    portfolioVars,
    lifeVars >>

notGoalVars == << debtVars, taxVars, sipVars, windfallVars, storeVars, inflationVars,
    addGoalVars,
    portfolioVars,
    lifeVars >>

notSipVars == << debtVars, taxVars, goalVars, windfallVars, storeVars, inflationVars,
    addGoalVars,
    portfolioVars,
    lifeVars >>

notWindfallVars == << debtVars, taxVars, goalVars, sipVars, storeVars, inflationVars,
    addGoalVars,
    portfolioVars,
    lifeVars >>

\* calculateGoalMetrics runs simulateGoal, so it leaves alone neither the
\* store's nor the simulation's variables
notStoreVars == << debtVars, taxVars, sipVars, windfallVars, inflationVars,
    addGoalVars,
    portfolioVars,
    lifeVars >>

\* addGoal runs calculateGoalMetrics, and with it simulateGoal
notAddGoalVars == << debtVars, taxVars, sipVars, windfallVars, inflationVars,
    portfolioVars,
    lifeVars >>

notPortfolioVars == << debtVars, taxVars, goalVars, sipVars, windfallVars, storeVars,
                      inflationVars, addGoalVars,
    lifeVars >>

\* selectOption runs updateGoal, and with it calculateGoalMetrics
notLifeVars == << debtVars, taxVars, sipVars, windfallVars, inflationVars,
                 addGoalVars, portfolioVars >>

notInflationVars == << debtVars, taxVars, goalVars, sipVars, windfallVars, storeVars,
    addGoalVars,
    portfolioVars,
    lifeVars >>

\* ------------------------------------------------------ JavaScript numbers

\* a finite number n
Number(n) == [kind |-> "number", v |-> n]

\* NaN: 0 / 0, Math.round(undefined)
NaN == [kind |-> "NaN", v |-> 0]

\* x / 0 for x > 0
PositiveInfinity == [kind |-> "Infinity", v |-> 0]

\* null
Null == [kind |-> "null", v |-> 0]

\* !x for a number or null: null, 0 and NaN are falsy
Falsy(x) == x.kind \in {"null", "NaN"} \/ (x.kind = "number" /\ x.v = 0)

\* ----------------------------------------------------------- DebtSnowball
\* Amounts are in paise (1/100 rupee), interest rates in percent a year.

\* the 600-month cap of the simulation loops
MaxMonths == 600

\* the longest liabilities array the model draws
MaxDebts == 2

\* the liabilities the model draws from (amounts in paise)
DebtCatalog ==
  { [loanType |-> "personal",    principal |-> 10000000, interestRate |-> 24, emi |-> 500000],
    [loanType |-> "home",        principal |-> 50000000, interestRate |-> 9,  emi |-> 600000],
    [loanType |-> "credit-card", principal |-> 2000000,  interestRate |-> 9,  emi |-> 200000],
    \* an installment below the month's interest of 1,000
    [loanType |-> "education",   principal |-> 20000000, interestRate |-> 6,  emi |-> 90000],
    \* interest free, paid off by its 600th installment
    [loanType |-> "home",        principal |-> 6000000,  interestRate |-> 0,  emi |-> 10000] }

ExtraPayments == {0, 5000, 200000}

Methods == {"avalanche", "snowball"}

LiabilityName(i) == <<"L", i>>

\* the arrays a caller can pass: each liability carries its own name
LiabilityArrays ==
  UNION { { [i \in 1..n |-> [name |-> LiabilityName(i)] @@ pick[i]] :
              pick \in [1..n -> DebtCatalog] } : n \in 0..MaxDebts }

calculatePriority(debt) ==
  LET rateScore == IF debt.interestRate > 20 THEN 100
                   ELSE IF debt.interestRate > 15 THEN 80
                   ELSE IF debt.interestRate > 12 THEN 60
                   ELSE IF debt.interestRate > 8 THEN 40
                   ELSE 20
      typeScore == IF debt.loanType = "credit-card" THEN 50
                   ELSE IF debt.loanType = "personal" THEN 30
                   ELSE 0
      sizeScore == IF debt.principal < 5000000 THEN 20
                   ELSE IF debt.principal < 20000000 THEN 10
                   ELSE 0
      taxScore  == IF debt.loanType \in {"home", "education"} THEN -30 ELSE 0
  IN  rateScore + typeScore + sizeScore + taxScore

NegPriority(d) == 0 - d.priority

\* analyzeDebts: the copies it returns, by priority descending.  (Its report
\* fields monthsRemaining, totalInterest and the summary are read by no
\* operation modelled here and are left out.)
analyzeDebts(liabs) ==
  IF Len(liabs) = 0
  THEN [hasDebt |-> FALSE, debts |-> << >>]
  ELSE [hasDebt |-> TRUE,
        debts   |-> SortAsc([i \in 1..Len(liabs) |->
                               liabs[i] @@ [priority |-> calculatePriority(liabs[i])]],
                            NegPriority)]

NegInterestRate(d) == 0 - d.interestRate

Balance(d) == d.balance

\* a slip: the avalanche comparator the wrong way round, a.rate - b.rate
SortForMethodAscending(ds, m) ==
  IF m = "avalanche" THEN SortAsc(ds, LAMBDA d : d.interestRate) ELSE SortAsc(ds, Balance)

\* the method's sort of the cloned debts
SortForMethod(ds, m) ==
  IF m = "avalanche" THEN SortAsc(ds, NegInterestRate) ELSE SortAsc(ds, Balance)

\* debts.find(d => d.balance > 0) === debts[i]
IsFirstActive(ds, i) ==
  /\ ds[i].balance > 0
  /\ \A j \in 1..(i - 1) : ds[j].balance <= 0

\* the body of the plan loop's "for (const debt of debts)", from index i on
RECURSIVE PayDebts(_, _, _, _, _)
PayDebts(i, ds, freedUpPayment, payments, totalExtraAvailable) ==
  IF i > Len(ds) THEN [debts |-> ds, payments |-> payments]
  ELSE IF ds[i].balance <= 0
  THEN PayDebts(i + 1, ds, freedUpPayment, payments, totalExtraAvailable)
  ELSE
    LET debt      == ds[i]
        interest  == MulDiv(debt.balance, debt.interestRate, 1200)
        wanted    == IF IsFirstActive(ds, i)
                     THEN debt.emi + totalExtraAvailable + freedUpPayment
                     ELSE debt.emi
        payment   == Min(wanted, debt.balance + interest)
        principalPaid == payment - interest
        newBalance == Max(0, debt.balance - principalPaid)
        paidDebt  == [debt EXCEPT !.balance = newBalance,
                                  !.paid = @ + payment,
                                  !.monthsPaid = @ + 1]
        row       == [name      |-> debt.name,
                      payment   |-> MathRound(payment, 100),
                      interest  |-> MathRound(interest, 100),
                      principal |-> MathRound(principalPaid, 100),
                      balance   |-> MathRound(newBalance, 100)]
        freed     == IF newBalance = 0 THEN freedUpPayment + debt.emi
                     ELSE freedUpPayment
    IN  PayDebts(i + 1, [ds EXCEPT ![i] = paidDebt], freed,
                 Append(payments, row), totalExtraAvailable)

\* a slip: the whole EMI paid, whatever is still owed
MinimumPaymentUncapped(d) ==
  IF d.balance <= 0 THEN d
  ELSE LET interest == MulDiv(d.balance, d.rate, 1200)
       IN  [d EXCEPT !.balance = d.balance + interest - d.emi,
                     !.paid = @ + d.emi]

\* one month of simulateMinimumPayments for one debt
MinimumPayment(d) ==
  IF d.balance <= 0 THEN d
  ELSE LET interest == MulDiv(d.balance, d.rate, 1200)
           payment  == Min(d.emi, d.balance + interest)
       IN  [d EXCEPT !.balance = Max(0, d.balance + interest - payment),
                     !.paid = @ + payment]

\* a slip: the loops go on while there are debts at all
SomeDebt(ds) == {i \in 1..Len(ds) : TRUE} # {}

\* debts.some(d => d.balance > 0)
SomeBalance(ds) == {i \in 1..Len(ds) : ds[i].balance > 0} # {}

TotalPaid(ds) == SumSeq([i \in 1..Len(ds) |-> ds[i].paid])

NoPlan == [month |-> 0, payments |-> << >>]

\* a slip: the priority sort applied to the caller's array itself
CallersArraySorted(liabs) ==
  LET sorted == SortAsc([i \in 1..Len(liabs) |->
                           liabs[i] @@ [priority |-> calculatePriority(liabs[i])]],
                        NegPriority)
  IN  [i \in 1..Len(liabs) |->
         [name |-> sorted[i].name, loanType |-> sorted[i].loanType,
          principal |-> sorted[i].principal, interestRate |-> sorted[i].interestRate,
          emi |-> sorted[i].emi]]

\* the caller's array after analyzeDebts: liabilities.map builds a new array
\* of new objects, and the sorts and payments that follow work on the copies
CallersArray(liabs) == liabs

DebtInit ==
  /\ liabilities \in LiabilityArrays
  /\ extraPayment \in ExtraPayments
  /\ method \in Methods
  /\ dpc = "call"
  /\ debts = << >>
  /\ month = 0
  /\ monthPlan = NoPlan
  /\ planLen = 0
  /\ minDebts = << >>
  /\ minMonth = 0
  /\ payoff = "none"

DebtIdle ==
  /\ liabilities = << >>
  /\ extraPayment = 0
  /\ method = "avalanche"
  /\ dpc = "idle"
  /\ debts = << >>
  /\ month = 0
  /\ monthPlan = NoPlan
  /\ planLen = 0
  /\ minDebts = << >>
  /\ minMonth = 0
  /\ payoff = "none"

\* createPayoffPlan up to its month loop: analyse, clone, sort
PlanBegin ==
  /\ dpc = "call"
  /\ LET analysis == analyzeDebts(liabilities)
     IN  IF ~analysis.hasDebt
         THEN /\ dpc' = "done"
              /\ payoff' = "null"
              /\ UNCHANGED debts
         ELSE /\ dpc' = "plan"
              /\ debts' = SortForMethod(
                   [i \in 1..Len(analysis.debts) |->
                      analysis.debts[i] @@
                      [balance |-> analysis.debts[i].principal, paid |-> 0, monthsPaid |-> 0]],
                   method)
              /\ UNCHANGED payoff
  /\ liabilities' = CallersArray(liabilities)
  /\ UNCHANGED << extraPayment, method, month, monthPlan, planLen,
                  minDebts, minMonth >>
  /\ UNCHANGED notDebtVars

\* one turn of the plan's while loop
PlanMonth ==
  /\ dpc = "plan"
  /\ SomeBalance(debts) /\ month < MaxMonths
  /\ LET paid == PayDebts(1, debts, 0, << >>, extraPayment)
     IN  /\ debts' = paid.debts
         /\ monthPlan' = [month |-> month + 1, payments |-> paid.payments]
  /\ month' = month + 1
  /\ planLen' = planLen + 1
  /\ UNCHANGED << liabilities, extraPayment, method, dpc, minDebts, minMonth, payoff >>
  /\ UNCHANGED notDebtVars

\* the plan loop ends; simulateMinimumPayments clones the caller's array
MinimumBegin ==
  /\ dpc = "plan"
  /\ ~(SomeBalance(debts) /\ month < MaxMonths)
  /\ dpc' = "minimum"
  /\ minDebts' = [i \in 1..Len(liabilities) |->
                    [balance |-> liabilities[i].principal,
                     emi     |-> liabilities[i].emi,
                     rate    |-> liabilities[i].interestRate,
                     paid    |-> 0]]
  /\ minMonth' = 0
  /\ UNCHANGED << liabilities, extraPayment, method, debts, month, monthPlan,
                  planLen, payoff >>
  /\ UNCHANGED notDebtVars

\* one turn of simulateMinimumPayments' while loop
MinimumMonth ==
  /\ dpc = "minimum"
  /\ SomeBalance(minDebts) /\ minMonth < MaxMonths
  /\ minMonth' = minMonth + 1
  /\ minDebts' = [i \in 1..Len(minDebts) |-> MinimumPayment(minDebts[i])]
  /\ UNCHANGED << liabilities, extraPayment, method, dpc, debts, month, monthPlan,
                  planLen, payoff >>
  /\ UNCHANGED notDebtVars

\* simulateMinimumPayments returns and createPayoffPlan builds its result
PlanReturn ==
  /\ dpc = "minimum"
  /\ ~(SomeBalance(minDebts) /\ minMonth < MaxMonths)
  /\ dpc' = "done"
  /\ LET withExtra    == [months |-> month, totalPaid |-> TotalPaid(debts)]
         withoutExtra == [months |-> minMonth, totalPaid |-> TotalPaid(minDebts)]
     IN  payoff' =
           [method |-> method,
            debts  |-> [i \in 1..Len(debts) |->
                          [name           |-> debts[i].name,
                           initialBalance |-> debts[i].principal,
                           totalPaid      |-> MathRound(debts[i].paid, 100),
                           monthsToPay    |-> debts[i].monthsPaid,
                           interestPaid   |-> MathRound(debts[i].paid - debts[i].principal, 100)]],
            summary |-> [totalMonths   |-> withExtra.months,
                         totalPaid     |-> MathRound(withExtra.totalPaid, 100),
                         monthsSaved   |-> withoutExtra.months - withExtra.months,
                         interestSaved |-> MathRound(withoutExtra.totalPaid - withExtra.totalPaid, 100)]]
  /\ UNCHANGED << liabilities, extraPayment, method, debts, month, monthPlan,
                  planLen, minDebts, minMonth >>
  /\ UNCHANGED notDebtVars

DebtNext == PlanBegin \/ PlanMonth \/ MinimumBegin \/ MinimumMonth \/ PlanReturn

\* ---------------------------------------------------------- TaxCalculator
\* Inputs are in rupees and multiples of 25,000; tax amounts are carried in
\* tenths of a rupee, in which every product below is exact for such inputs,
\* and are rounded to the rupee where the source rounds them.

\* the largest multiple of 25,000 in the dense range of gross incomes
MaxIncomeSteps == 100

\* slab.max of the last slab
Infinity == 2147483647

taxSlabs ==
  [new |->
     [slabs |-> << [min |-> 0,       max |-> 400000,   rate |-> 0],
                   [min |-> 400000,  max |-> 800000,   rate |-> 5],
                   [min |-> 800000,  max |-> 1200000,  rate |-> 10],
                   [min |-> 1200000, max |-> 1600000,  rate |-> 15],
                   [min |-> 1600000, max |-> 2000000,  rate |-> 20],
                   [min |-> 2000000, max |-> 2400000,  rate |-> 25],
                   [min |-> 2400000, max |-> Infinity, rate |-> 30] >>,
      standardDeduction |-> 75000,
      rebate87A |-> [limit |-> 700000, maxRebate |-> 25000]],
   old |->
     [slabs |-> << [min |-> 0,       max |-> 250000,   rate |-> 0],
                   [min |-> 250000,  max |-> 500000,   rate |-> 5],
                   [min |-> 500000,  max |-> 1000000,  rate |-> 20],
                   [min |-> 1000000, max |-> Infinity, rate |-> 30] >>,
      standardDeduction |-> 50000,
      rebate87A |-> [limit |-> 500000, maxRebate |-> 12500]]]

section80CLimit == 150000

section80D == [self |-> 25000, selfSenior |-> 50000, parents |-> 25000, parentsSenior |-> 50000]

ltcgExemption == 125000

homeLoanInterestUnder24b == 200000

\* taxable income: the standard deduction, then the old regime's deductions
TaxableIncome(params) ==
  LET slabConfig == taxSlabs[params.regime]
      afterStandard == params.grossIncome - slabConfig.standardDeduction
      actual80C   == Min(params.deductions80C, section80CLimit)
      actual80D   == Min(params.deductions80D, section80D.self + section80D.parents)
      actual80CCD == Min(params.deductions80CCD, 50000)
      actualHomeLoan == Min(params.homeLoanInterest, homeLoanInterestUnder24b)
      hraExempt   == IF params.hra > 0 THEN params.hra ELSE 0
      afterAll    == IF params.regime = "old"
                     THEN afterStandard - actual80C - actual80D - actual80CCD
                          - actualHomeLoan - hraExempt
                     ELSE afterStandard
  IN  Max(0, afterAll)

\* a slip: the slab's share not capped at the slab's width
SlabTaxUncapped(taxableIncome, slabs) ==
  SumSeq([k \in 1..Len(slabs) |->
            IF taxableIncome > slabs[k].min
            THEN MulDiv(taxableIncome - slabs[k].min, slabs[k].rate, 10)
            ELSE 0])

\* a slip: the slab's lower edge not taken off the income
SlabTaxFromZero(taxableIncome, slabs) ==
  SumSeq([k \in 1..Len(slabs) |->
            IF taxableIncome > slabs[k].min
            THEN MulDiv(Min(taxableIncome, slabs[k].max - slabs[k].min),
                        slabs[k].rate, 10)
            ELSE 0])

\* the slab loop: baseTax before the rebate, in tenths of a rupee
SlabTax(taxableIncome, slabs) ==
  SumSeq([k \in 1..Len(slabs) |->
            IF taxableIncome > slabs[k].min
            THEN MulDiv(Min(taxableIncome - slabs[k].min, slabs[k].max - slabs[k].min),
                        slabs[k].rate, 10)
            ELSE 0])

\* a slip: the rebate's comparison the wrong way round
Rebate87AFlipped(taxableIncome, baseTax, rebate87A) ==
  IF taxableIncome > rebate87A.limit
  THEN Min(baseTax, 10 * rebate87A.maxRebate)
  ELSE 0

\* the rebate under section 87A, in tenths of a rupee (0 when none applies)
Rebate87A(taxableIncome, baseTax, rebate87A) ==
  IF taxableIncome <= rebate87A.limit
  THEN Min(baseTax, 10 * rebate87A.maxRebate)
  ELSE 0

\* a slip: each bracket taken to start at its lower edge, not above it
SurchargeRateInclusive(taxableIncome) ==
  IF taxableIncome >= 5000000 /\ taxableIncome < 10000000 THEN 10
  ELSE IF taxableIncome >= 10000000 /\ taxableIncome < 20000000 THEN 15
  ELSE IF taxableIncome >= 20000000 /\ taxableIncome < 50000000 THEN 25
  ELSE IF taxableIncome >= 50000000 THEN 37
  ELSE 0

\* the surcharge rate, in percent, of the bracket of the taxable income
SurchargeRate(taxableIncome) ==
  IF taxableIncome > 5000000 /\ taxableIncome <= 10000000 THEN 10
  ELSE IF taxableIncome > 10000000 /\ taxableIncome <= 20000000 THEN 15
  ELSE IF taxableIncome > 20000000 /\ taxableIncome <= 50000000 THEN 25
  ELSE IF taxableIncome > 50000000 THEN 37
  ELSE 0

\* capital gains tax, in tenths of a rupee
CapitalGainsTax(ltcg, stcg) ==
  (IF ltcg > 0 THEN MulDiv(Max(0, ltcg - ltcgExemption), 125, 100) ELSE 0)
  + (IF stcg > 0 THEN stcg * 2 ELSE 0)

\* calculateTax.  (effectiveRate is read by no operation modelled here and is
\* left out.)
calculateTax(params) ==
  LET slabConfig    == taxSlabs[params.regime]
      taxableIncome == TaxableIncome(params)
      slabTax       == SlabTax(taxableIncome, slabConfig.slabs)
      rebate        == Rebate87A(taxableIncome, slabTax, slabConfig.rebate87A)
      baseTax       == slabTax - rebate
      surcharge     == MulDiv(baseTax, SurchargeRate(taxableIncome), 100)
      cess          == MulDiv(baseTax + surcharge, 4, 100)
      capitalGainsTax == CapitalGainsTax(params.ltcg, params.stcg)
      totalTax      == baseTax + surcharge + cess + capitalGainsTax
  IN  [regime    |-> params.regime,
       breakdown |-> [grossIncome   |-> params.grossIncome,
                      taxableIncome |-> taxableIncome,
                      rebate87A     |-> rebate],
       baseTax   |-> MathRound(baseTax, 10),
       surcharge |-> MathRound(surcharge, 10),
       cess      |-> MathRound(cess, 10),
       capitalGainsTax |-> MathRound(capitalGainsTax, 10),
       totalTax  |-> MathRound(totalTax, 10),
       monthlyTax |-> MathRound(totalTax, 120)]

\* the gross incomes drawn: a dense range, and the stretch after each
\* surcharge breakpoint
GrossIncomes ==
  { 25000 * k : k \in 0..MaxIncomeSteps }
  \cup { b + 25000 * k : b \in {5000000, 10000000, 20000000, 50000000}, k \in 0..5 }

NoDeductions ==
  [deductions80C |-> 0, deductions80D |-> 0, deductions80CCD |-> 0,
   homeLoanInterest |-> 0, hra |-> 0, ltcg |-> 0, stcg |-> 0]

\* the other inputs drawn: none, deductions up to and over their ceilings,
\* and capital gains
OtherInputs ==
  { NoDeductions,
    [deductions80C |-> 200000, deductions80D |-> 25000, deductions80CCD |-> 50000,
     homeLoanInterest |-> 250000, hra |-> 100000, ltcg |-> 0, stcg |-> 0],
    [deductions80C |-> 100000, deductions80D |-> 0, deductions80CCD |-> 0,
     homeLoanInterest |-> 0, hra |-> 0, ltcg |-> 200000, stcg |-> 50000] }

NoTaxResult == [regime |-> "none"]

Abs(x) == IF x < 0 THEN 0 - x ELSE x

\* a slip: the difference reported with its sign
SavingsSigned(savings) == savings

\* the savings field: Math.abs(savings)
Savings(savings) == Abs(savings)

\* savings > 0 ? 'new' : 'old'
RecommendedRegime(savings) == IF savings > 0 THEN "new" ELSE "old"

\* compareRegimes; the recommendation text is given by the regime it names
\* and the amount it quotes
compareRegimes(params) ==
  LET oldRegime == calculateTax([params EXCEPT !.regime = "old"])
      newRegime == calculateTax([params EXCEPT !.regime = "new"])
      savings   == oldRegime.totalTax - newRegime.totalTax
  IN  [old |-> oldRegime,
       new |-> newRegime,
       savings |-> Savings(savings),
       recommendedRegime |-> RecommendedRegime(savings),
       recommendation |-> [saves  |-> IF savings > 0 THEN "New regime" ELSE "Old regime",
                           amount |-> Abs(savings)]]

NoComparison == [recommendedRegime |-> "none"]

TaxInit ==
  /\ \E g \in GrossIncomes, r \in {"old", "new"}, o \in OtherInputs :
       taxParams = [grossIncome |-> g, regime |-> r] @@ o
  /\ tpc = "call"
  /\ taxResult = NoTaxResult
  /\ prevTax = NoTaxResult
  /\ comparison = NoComparison

TaxIdle ==
  /\ taxParams = [grossIncome |-> 0, regime |-> "new"] @@ NoDeductions
  /\ tpc = "idle"
  /\ taxResult = NoTaxResult
  /\ prevTax = NoTaxResult
  /\ comparison = NoComparison

\* a call of calculateTax
TaxCall ==
  /\ tpc = "call"
  /\ taxResult' = calculateTax(taxParams)
  /\ tpc' = "returned"
  /\ UNCHANGED << taxParams, prevTax, comparison >>
  /\ UNCHANGED notTaxVars

\* a second call, with a gross income at least as high and all else the same
TaxCallHigher ==
  /\ tpc = "returned"
  /\ \E g \in GrossIncomes :
       /\ g >= taxParams.grossIncome
       /\ taxParams' = [taxParams EXCEPT !.grossIncome = g]
  /\ prevTax' = taxResult
  /\ taxResult' = calculateTax(taxParams')
  /\ tpc' = "compared"
  /\ UNCHANGED comparison
  /\ UNCHANGED notTaxVars

\* a call of compareRegimes on the same params
TaxCompareRegimes ==
  /\ tpc = "call"
  /\ comparison' = compareRegimes(taxParams)
  /\ tpc' = "regimes"
  /\ UNCHANGED << taxParams, taxResult, prevTax >>
  /\ UNCHANGED notTaxVars

TaxNext == TaxCall \/ TaxCallHigher \/ TaxCompareRegimes

\* gross incomes between the round figures: steps of 25 rupees through the
\* new regime's 10% slab, where every amount of calculateTax is still a whole
\* number of tenths of a rupee
RupeeIncomes == { 875000 + 25 * k : k \in 0..59 }

TaxRupeesInit ==
  /\ \E g \in RupeeIncomes, r \in {"old", "new"} :
       taxParams = [grossIncome |-> g, regime |-> r] @@ NoDeductions
  /\ tpc = "call"
  /\ taxResult = NoTaxResult
  /\ prevTax = NoTaxResult
  /\ comparison = NoComparison

TaxRupeesNext == TaxCall
\* ------------------------------------------------------------- MonteCarlo
\* Amounts are in paise, returns in basis points (1/10,000).  The normal
\* variate of generateMonthlyReturn is drawn from NormalDraws; years is given
\* in 24ths of a year, so that Math.round(years * 12) has halves to round.

\* the largest iteration count drawn
MaxIterations == 3

NormalDraws == {-2, 0, 2}

Years24Drawn == {0, 1, 2, 4}

IterationsDrawn == (0 - 1)..MaxIterations

\* generateMonthlyReturn for the variate z: annualReturn / 12 plus z times
\* annualVolatility / sqrt(12), with 1 / sqrt(12) taken as 10000 / 34641
generateMonthlyReturn(expectedReturn, volatility, z) ==
  MulDiv(expectedReturn, 100, 12) + z * MulDiv(volatility * 100, 10000, 34641)

\* portfolio * (1 + monthlyReturn) + monthlyContribution
GrowPortfolio(value, monthlyReturn, monthlyContribution) ==
  MulDiv(value, 10000 + monthlyReturn, 10000) + monthlyContribution

Months(params) == MathRound(params.years24, 2)

Identity(x) == x

\* results[k] for a JavaScript index k: undefined outside the array
ElementAt(sorted, k) ==
  IF k >= 0 /\ k < Len(sorted) THEN << sorted[k + 1] >> ELSE << >>

\* Math.round(results[k]) in rupees: NaN for undefined
RoundedElement(sorted, k) ==
  LET e == ElementAt(sorted, k)
  IN  IF e = << >> THEN NaN ELSE Number(MathRound(e[1], 100))

\* Math.floor(iterations * p) for p = pct / 100
PercentileIndex(iterations, pct) == (iterations * pct) \div 100

\* a slip: r > targetAmount
SuccessCountStrict(sorted, targetAmount) ==
  Cardinality({k \in 1..Len(sorted) : sorted[k] > targetAmount})

\* results.filter(r => r >= targetAmount).length
SuccessCount(sorted, targetAmount) ==
  Cardinality({k \in 1..Len(sorted) : sorted[k] >= targetAmount})

\* a slip: Math.floor for Math.round
ProbabilityFloor(successCount, iterations) ==
  IF iterations = 0 THEN NaN
  ELSE IF iterations < 0 THEN Number(0)
  ELSE Number((100 * successCount) \div iterations)

\* Math.round(probability * 100) / 100, in hundredths; 0 / 0 is NaN and
\* 0 / iterations is (minus) zero for iterations < 0
Probability(successCount, iterations) ==
  IF iterations = 0 THEN NaN
  ELSE IF iterations < 0 THEN Number(0)
  ELSE Number(MathRound(100 * successCount, iterations))

\* Math.round(sum / iterations) in rupees
Mean(sorted, iterations) ==
  IF iterations = 0 THEN NaN
  ELSE IF iterations < 0 THEN Number(0)
  ELSE Number(MathRound(SumSeq(sorted), 100 * iterations))

\* a slip: the sort left out
SortResultsOmitted(pushed) == pushed

\* results.sort((a, b) => a - b)
SortResults(pushed) == SortAsc(pushed, Identity)

\* the statistics simulateGoal returns, from the sorted results
Statistics(sorted, params) ==
  LET iterations == params.iterations
  IN  [probability |-> Probability(SuccessCount(sorted, params.targetAmount), iterations),
       percentiles |->
         [p10 |-> RoundedElement(sorted, PercentileIndex(iterations, 10)),
          p25 |-> RoundedElement(sorted, PercentileIndex(iterations, 25)),
          p50 |-> RoundedElement(sorted, PercentileIndex(iterations, 50)),
          p75 |-> RoundedElement(sorted, PercentileIndex(iterations, 75)),
          p90 |-> RoundedElement(sorted, PercentileIndex(iterations, 90))],
       mean |-> Mean(sorted, iterations),
       min  |-> RoundedElement(sorted, 0),
       max  |-> RoundedElement(sorted, iterations - 1)]

NoGoalResult == [probability |-> NaN]

GoalParamsDrawn ==
  [currentAmount       : {0, 100000, 100050},
   monthlyContribution : {0, 10000},
   expectedReturn      : {12},
   volatility          : {15},
   years24             : Years24Drawn,
   targetAmount        : {100000, 100100},
   iterations          : IterationsDrawn]

GoalInit ==
  /\ goalParams \in GoalParamsDrawn
  /\ gpc = "run"
  /\ results = << >>
  /\ trial = 0
  /\ portfolio = goalParams.currentAmount
  /\ stepMonth = 0
  /\ goalResult = NoGoalResult
  /\ prevGoal = NoGoalResult

GoalIdle ==
  /\ goalParams = [currentAmount |-> 0, monthlyContribution |-> 0, expectedReturn |-> 12,
                   volatility |-> 15, years24 |-> 0, targetAmount |-> 0, iterations |-> 0]
  /\ gpc = "idle"
  /\ results = << >>
  /\ trial = 0
  /\ portfolio = 0
  /\ stepMonth = 0
  /\ goalResult = NoGoalResult
  /\ prevGoal = NoGoalResult

\* one month of the running trial, with a fresh draw
TrialMonth ==
  /\ gpc = "run"
  /\ trial < goalParams.iterations
  /\ stepMonth < Months(goalParams)
  /\ \E z \in NormalDraws :
       portfolio' = GrowPortfolio(portfolio,
                      generateMonthlyReturn(goalParams.expectedReturn, goalParams.volatility, z),
                      goalParams.monthlyContribution)
  /\ stepMonth' = stepMonth + 1
  /\ UNCHANGED << goalParams, gpc, results, trial, goalResult, prevGoal >>
  /\ UNCHANGED notGoalVars

\* the trial's months are over: push its portfolio, start the next trial
TrialEnd ==
  /\ gpc = "run"
  /\ trial < goalParams.iterations
  /\ stepMonth >= Months(goalParams)
  /\ results' = Append(results, portfolio)
  /\ trial' = trial + 1
  /\ portfolio' = goalParams.currentAmount
  /\ stepMonth' = 0
  /\ UNCHANGED << goalParams, gpc, goalResult, prevGoal >>
  /\ UNCHANGED notGoalVars

\* the trial loop is over: sort, take the statistics, return
GoalReturn ==
  /\ gpc = "run"
  /\ trial >= goalParams.iterations
  /\ results' = SortResults(results)
  /\ goalResult' = Statistics(results', goalParams)
  /\ gpc' = "done"
  /\ UNCHANGED << goalParams, trial, portfolio, stepMonth, prevGoal >>
  /\ UNCHANGED notGoalVars

\* a second call of simulateGoal with the same params object; the params
\* have no seed and generateMonthlyReturn takes none
GoalCallAgain ==
  /\ gpc = "done"
  /\ prevGoal = NoGoalResult
  /\ prevGoal' = goalResult
  /\ gpc' = "run"
  /\ results' = << >>
  /\ trial' = 0
  /\ portfolio' = goalParams.currentAmount
  /\ stepMonth' = 0
  /\ UNCHANGED << goalParams, goalResult >>
  /\ UNCHANGED notGoalVars

GoalNext == TrialMonth \/ TrialEnd \/ GoalReturn

\* the inputs drawn for the pair of calls: two trials of one month
RepeatParamsDrawn ==
  { p \in GoalParamsDrawn : p.iterations = 2 /\ p.years24 = 2 }

GoalRepeatInit ==
  /\ GoalInit
  /\ goalParams \in RepeatParamsDrawn

GoalRepeatNext == TrialMonth \/ TrialEnd \/ GoalReturn \/ GoalCallAgain

\* ------------------------------------------- MonteCarlo.calculateRequiredSIP
\* Amounts are in rupees; Math.pow(1 + monthlyRate, months) is carried in
\* millionths.

\* the longest horizon drawn, in years
MaxSipYears == 3

\* Math.pow(1 + expectedReturn / 1200, months), in millionths
RECURSIVE PowMonthly(_, _)
PowMonthly(expectedReturn, months) ==
  IF months = 0 THEN 1000000
  ELSE MulDiv(PowMonthly(expectedReturn, months - 1), 1200 + expectedReturn, 1200)

calculateRequiredSIP(params) ==
  LET months    == params.years * 12
      pow       == PowMonthly(params.expectedReturn, months)
      fvCurrent == MulDiv(pow, params.currentAmount, 1000000)
      remaining == params.targetAmount - fvCurrent
      \* remaining * monthlyRate, in millionths of a rupee
      numerator == MulDiv(remaining * params.expectedReturn, 1000000, 1200)
      denominator == pow - 1000000
  IN  IF remaining <= 0 THEN Number(0)
      ELSE IF denominator = 0
      THEN (IF numerator = 0 THEN NaN ELSE PositiveInfinity)
      ELSE Number(Max(0, MathRound(numerator, denominator)))

SipParamsDrawn ==
  [currentAmount  : {0, 500, 1000, 2000},
   expectedReturn : {0, 6, 12},
   targetAmount   : {0, 1000, 10000, 50000},
   years          : 0..MaxSipYears]

SipInit ==
  /\ sipParams \in SipParamsDrawn
  /\ spc = "call"
  /\ sipResult = NaN
  /\ prevSip = NaN

SipIdle ==
  /\ sipParams = [currentAmount |-> 0, expectedReturn |-> 12, targetAmount |-> 0, years |-> 0]
  /\ spc = "idle"
  /\ sipResult = NaN
  /\ prevSip = NaN

\* a call of calculateRequiredSIP
SipCall ==
  /\ spc = "call"
  /\ sipResult' = calculateRequiredSIP(sipParams)
  /\ spc' = "returned"
  /\ UNCHANGED << sipParams, prevSip >>
  /\ UNCHANGED notSipVars

\* a second call, with a current amount at least as high, a target at most
\* as high, and the same years and rate
SipCallAgain ==
  /\ spc = "returned"
  /\ \E p \in SipParamsDrawn :
       /\ p.years = sipParams.years
       /\ p.expectedReturn = sipParams.expectedReturn
       /\ p.currentAmount >= sipParams.currentAmount
       /\ p.targetAmount <= sipParams.targetAmount
       /\ sipParams' = p
  /\ prevSip' = sipResult
  /\ sipResult' = calculateRequiredSIP(sipParams')
  /\ spc' = "compared"
  /\ UNCHANGED notSipVars

SipNext == SipCall \/ SipCallAgain

\* ------------- MonteCarlo.calculateWindfallImpact and calculateYearsToTarget
\* Amounts are in paise.  calculateWindfallImpact calls calculateYearsToTarget
\* twice, first on currentProgress and then on currentProgress + windfall;
\* ytMonths and ytValue are the locals of the call that is running or has just
\* returned.  The investedValue field of the result, the median of a
\* hundred-trial simulateGoal run on the windfall, is left out.

\* the cap of the accumulation loop
MaxTargetMonths == 600

\* value * (1 + monthlyRate) + monthlyContribution
Accumulate(v, expectedReturn, monthlyContribution) ==
  MulDiv(v, 1200 + expectedReturn, 1200) + monthlyContribution

\* the loop condition of calculateYearsToTarget
StillShort(v, m, targetAmount) == v < targetAmount /\ m < MaxTargetMonths

\* return months < 600 ? months : null
YearsToTargetResult(m) == IF m < MaxTargetMonths THEN Number(m) ELSE Null

WindfallParamsDrawn ==
  [windfall                   : {0, 50000, 100000},
   currentMonthlyContribution : {0, 100},
   expectedReturn             : {0, 12},
   targetAmount               : {50000, 59900, 60000},
   currentProgress            : {0, 50000}]

NoImpact == [kind |-> "none"]

WindfallInit ==
  /\ windfallParams \in WindfallParamsDrawn
  /\ wpc = "without"
  /\ ytMonths = 0
  /\ ytValue = windfallParams.currentProgress
  /\ monthsWithoutWindfall = Null
  /\ monthsWithWindfall = Null
  /\ windfallImpact = NoImpact

WindfallIdle ==
  /\ windfallParams = [windfall |-> 0, currentMonthlyContribution |-> 0,
                       expectedReturn |-> 12, targetAmount |-> 0,
                       currentProgress |-> 0]
  /\ wpc = "idle"
  /\ ytMonths = 0
  /\ ytValue = 0
  /\ monthsWithoutWindfall = Null
  /\ monthsWithWindfall = Null
  /\ windfallImpact = NoImpact

\* one pass of the while loop of calculateYearsToTarget, in either call
YearsToTargetMonth ==
  /\ wpc \in {"without", "with"}
  /\ StillShort(ytValue, ytMonths, windfallParams.targetAmount)
  /\ ytValue' = Accumulate(ytValue, windfallParams.expectedReturn,
                         windfallParams.currentMonthlyContribution)
  /\ ytMonths' = ytMonths + 1
  /\ UNCHANGED << windfallParams, wpc, monthsWithoutWindfall,
                  monthsWithWindfall, windfallImpact >>
  /\ UNCHANGED notWindfallVars

\* the first call returns
ReturnWithoutWindfall ==
  /\ wpc = "without"
  /\ ~StillShort(ytValue, ytMonths, windfallParams.targetAmount)
  /\ monthsWithoutWindfall' = YearsToTargetResult(ytMonths)
  /\ wpc' = "returnedWithout"
  /\ UNCHANGED << windfallParams, ytMonths, ytValue, monthsWithWindfall, windfallImpact >>
  /\ UNCHANGED notWindfallVars

\* the second call begins, on currentProgress + windfall
CallWithWindfall ==
  /\ wpc = "returnedWithout"
  /\ ytMonths' = 0
  /\ ytValue' = windfallParams.currentProgress + windfallParams.windfall
  /\ wpc' = "with"
  /\ UNCHANGED << windfallParams, monthsWithoutWindfall, monthsWithWindfall,
                  windfallImpact >>
  /\ UNCHANGED notWindfallVars

\* the second call returns
ReturnWithWindfall ==
  /\ wpc = "with"
  /\ ~StillShort(ytValue, ytMonths, windfallParams.targetAmount)
  /\ monthsWithWindfall' = YearsToTargetResult(ytMonths)
  /\ wpc' = "returnedWith"
  /\ UNCHANGED << windfallParams, ytMonths, ytValue, monthsWithoutWindfall, windfallImpact >>
  /\ UNCHANGED notWindfallVars

\* calculateWindfallImpact returns: null when either count is falsy
WindfallReturn ==
  /\ wpc = "returnedWith"
  /\ windfallImpact' =
       IF Falsy(monthsWithoutWindfall) \/ Falsy(monthsWithWindfall)
       THEN Null
       ELSE [kind |-> "object",
             monthsSaved |-> monthsWithoutWindfall.v - monthsWithWindfall.v]
  /\ wpc' = "done"
  /\ UNCHANGED << windfallParams, ytMonths, ytValue, monthsWithoutWindfall,
                  monthsWithWindfall >>
  /\ UNCHANGED notWindfallVars

WindfallNext ==
  \/ YearsToTargetMonth
  \/ ReturnWithoutWindfall
  \/ CallWithWindfall
  \/ ReturnWithWindfall
  \/ WindfallReturn

\* ------------------------------------------- Store.calculateGoalMetrics
\* Amounts are in paise.  The goal the metrics are calculated for is
\* state.goals[1].  The goal's target date is given by its distance from
\* today in half months of 30.44 days, so that Math.round has halves to
\* round.  No drawn goal has a loanAmount, so projectedEMI is never stored.

\* the largest monteCarloIterations drawn
MaxStoreIterations == 2

Amounts(records) == SumSeq([i \in 1..Len(records) |-> records[i].amount])

\* calculateTotalMonthlyIncome, for the single entity drawn
calculateTotalMonthlyIncome(st) ==
  SumSeq([e \in 1..Len(st.entities) |-> Amounts(st.entities[e].incomeStreams)])

calculateTotalMonthlyExpenses(st) ==
  SumSeq([e \in 1..Len(st.entities) |-> Amounts(st.entities[e].expenses)])

\* the sum of l.emi over every entity's liabilities
TotalEMIs(st) ==
  SumSeq([e \in 1..Len(st.entities) |->
            SumSeq([l \in 1..Len(st.entities[e].liabilities) |->
                      st.entities[e].liabilities[l].emi])])

\* the sum of monthlyContribution over the goals with another id
OtherGoalsSIP(st, goal) ==
  SumSeq([g \in 1..Len(st.goals) |->
            IF st.goals[g].id # goal.id THEN st.goals[g].monthlyContribution ELSE 0])

\* Math.max(1, Math.round((targetDate - today) / (30.44 days)))
MonthsToTargetDate(goal) == Max(1, MathRound(goal.targetHalfMonths, 2))

\* the target: the downpayment of a loan-funded goal, else the future value
GoalTarget(goal) ==
  IF goal.fundingType = "loan" THEN goal.downpaymentAmount ELSE goal.futureValue

\* goal.monthlyContribution: the annuity payment at 12% a year, rounded to
\* the rupee
RequiredSIP(goal) ==
  LET goalMonths == MonthsToTargetDate(goal)
      pow        == PowMonthly(12, goalMonths)
      fvCurrent  == MulDiv(pow, goal.currentValue, 1000000)
      remaining  == GoalTarget(goal) - fvCurrent
      numerator  == MulDiv(remaining * 12, 1000000, 1200)
  IN  IF remaining > 0
      THEN 100 * Max(0, MathRound(numerator, 100 * (pow - 1000000)))
      ELSE 0

\* Math.max(0, totalIncome - totalExpenses - totalEMIs - otherGoalsSIP)
DispensableIncome(st, goal) ==
  Max(0, calculateTotalMonthlyIncome(st) - calculateTotalMonthlyExpenses(st)
         - TotalEMIs(st) - OtherGoalsSIP(st, goal))

IncomeStreamsDrawn ==
  { << >>, << [amount |-> 5000000] >>, << [amount |-> 10000000], [amount |-> 5000000] >> }

ExpensesDrawn == { << >>, << [amount |-> 2000000] >> }

LiabilitiesDrawn == { << >>, << [emi |-> 1000000] >> }

OtherGoalsDrawn == { << >>, << [id |-> 2, monthlyContribution |-> 500000] >> }

GoalsDrawn ==
  [id                 : {1},
   targetHalfMonths   : {0 - 6, 3},
   fundingType        : {"cash", "loan"},
   downpaymentAmount  : {50000},
   futureValue        : {100000},
   currentValue       : {0, 100000},
   expectedReturn     : {0, 6},
   monthlyContribution : {0}]

StoreInit ==
  /\ \E n \in 1..MaxStoreIterations, incomeStreams \in IncomeStreamsDrawn,
        expenses \in ExpensesDrawn, owed \in LiabilitiesDrawn,
        goal \in GoalsDrawn, others \in OtherGoalsDrawn :
       state = [configuration |-> [taxRegime |-> "new", monteCarloIterations |-> n],
                entities |-> << [incomeStreams |-> incomeStreams,
                                 expenses      |-> expenses,
                                 liabilities   |-> owed] >>,
                goals    |-> << goal >> \o others]
  /\ mpc = "call"
  /\ dispensableIncome = 0

StoreIdle ==
  /\ state = [configuration |-> [taxRegime |-> "new", monteCarloIterations |-> 0],
              entities |-> << >>,
              goals    |-> << >>]
  /\ mpc = "idle"
  /\ dispensableIncome = 0

\* calculateGoalMetrics up to its call of simulateGoal
MetricsBegin ==
  /\ mpc = "call"
  /\ LET goal == state.goals[1]
         actualContribution == DispensableIncome(state, goal)
         expectedReturn == IF goal.expectedReturn # 0 THEN goal.expectedReturn ELSE 12
     IN  /\ state' = [state EXCEPT !.goals[1].monthlyContribution = RequiredSIP(goal)]
         /\ dispensableIncome' = actualContribution
         /\ goalParams' = [currentAmount       |-> goal.currentValue,
                           monthlyContribution |-> actualContribution,
                           expectedReturn      |-> expectedReturn,
                           volatility          |-> 15,
                           years24             |-> 2 * MonthsToTargetDate(goal),
                           targetAmount        |-> GoalTarget(goal),
                           iterations          |-> state.configuration.monteCarloIterations]
         /\ portfolio' = goal.currentValue
  /\ gpc' = "run"
  /\ results' = << >>
  /\ trial' = 0
  /\ stepMonth' = 0
  /\ mpc' = "simulate"
  /\ UNCHANGED << goalResult, prevGoal >>
  /\ UNCHANGED notStoreVars

\* simulateGoal has returned: store its result on the goal
MetricsEnd ==
  /\ mpc = "simulate"
  /\ gpc = "done"
  /\ state' = [state EXCEPT !.goals[1] =
                 [achievability     |-> goalResult.probability,
                  percentiles       |-> goalResult.percentiles,
                  actualContribution |-> dispensableIncome,
                  canAffordRequired |-> dispensableIncome >= @.monthlyContribution] @@ @]
  /\ mpc' = "done"
  /\ UNCHANGED dispensableIncome
  /\ UNCHANGED goalVars
  /\ UNCHANGED notStoreVars

StoreNext == MetricsBegin \/ TrialMonth \/ TrialEnd \/ GoalReturn \/ MetricsEnd

\* ----------------------------------- Inflation.futureValue and presentValue
\* Amounts are in paise and Math.pow(1 + rate, years) in ten-thousandths;
\* every product and quotient is rounded to the nearest unit, as a floating
\* point operation rounds to the nearest representable number.

\* the longest horizon drawn, in years
MaxInflationYears == 3

\* Math.pow(1 + inflationRate / 100, years) for whole years, in ten-thousandths
RECURSIVE PowYearly(_, _)
PowYearly(inflationRate, years) ==
  IF years = 0 THEN 10000
  ELSE MathRound(PowYearly(inflationRate, years - 1) * (100 + inflationRate), 100)

\* presentValue * Math.pow(1 + rate, years)
futureValue(pv, years, inflationRate) ==
  MathRound(pv * PowYearly(inflationRate, years), 10000)

\* a slip: one year's inflation taken off, whatever the years
presentValueOneYear(fv, years, inflationRate) ==
  MathRound(fv * 10000, PowYearly(inflationRate, 1))

\* futureValue / Math.pow(1 + rate, years)
presentValue(fv, years, inflationRate) ==
  MathRound(fv * 10000, PowYearly(inflationRate, years))

InflationArgsDrawn ==
  [amount        : {1, 99, 1000, 12345, 50000},
   years         : 0..MaxInflationYears,
   inflationRate : {0, 6, 10}]

InflationInit ==
  /\ inflationArgs \in InflationArgsDrawn
  /\ ipc = "call"
  /\ inflated = 0
  /\ deflated = 0

InflationIdle ==
  /\ inflationArgs = [amount |-> 0, years |-> 0, inflationRate |-> 6]
  /\ ipc = "idle"
  /\ inflated = 0
  /\ deflated = 0

\* a call of futureValue
FutureValueCall ==
  /\ ipc = "call"
  /\ inflated' = futureValue(inflationArgs.amount, inflationArgs.years,
                             inflationArgs.inflationRate)
  /\ ipc' = "future"
  /\ UNCHANGED << inflationArgs, deflated >>
  /\ UNCHANGED notInflationVars

\* a call of presentValue on the result, with the same years and rate
PresentValueCall ==
  /\ ipc = "future"
  /\ deflated' = presentValue(inflated, inflationArgs.years,
                              inflationArgs.inflationRate)
  /\ ipc' = "present"
  /\ UNCHANGED << inflationArgs, inflated >>
  /\ UNCHANGED notInflationVars

InflationNext == FutureValueCall \/ PresentValueCall

\* --------------------- Store.addGoal and Inflation.adjustGoalForInflation
\* Amounts are in paise.  addGoal's target date is drawn a whole number of
\* months from today, adjustGoalForInflation's a whole number of years.
\* Math.pow(1 + inflationRate, years) for years = m / 12 is the m-th power of
\* the rate's twelfth root, carried in ten-thousandths.  Only cash-funded
\* goals are drawn, for which downpaymentAmount, loanAmount and projectedEMI
\* are 0.  The new goal sits in state.goals[1] while calculateGoalMetrics
\* works on it; no other goal is in the store, so the push on line 472 leaves
\* it there.  persist and notifyAll are left out.

\* the farthest target date drawn for addGoal, in months from today
MaxGoalMonths == 2

\* Math.pow(1 + inflationRate, 1 / 12) in ten-thousandths
TwelfthRoot(inflationRate) ==
  CASE inflationRate = 0 -> 10000
    [] inflationRate = 6 -> 10049

\* Math.pow(1 + inflationRate, m / 12) for m >= 0, in ten-thousandths
RECURSIVE PowTwelfths(_, _)
PowTwelfths(inflationRate, m) ==
  IF m = 0 THEN 10000
  ELSE MulDiv(PowTwelfths(inflationRate, m - 1), TwelfthRoot(inflationRate), 10000)

\* Math.round(targetAmount * Math.pow(1 + inflationRate, years)); a target
\* date in the past makes years negative and the power a divisor
InflatedTarget(targetAmount, inflationRate, monthsAway) ==
  IF monthsAway >= 0
  THEN 100 * MathRound(targetAmount * PowTwelfths(inflationRate, monthsAway), 1000000)
  ELSE 100 * MathRound(targetAmount * 10000,
                       100 * PowTwelfths(inflationRate, 0 - monthsAway))

\* the newGoal object addGoal builds from the form
NewGoal(goal, st) ==
  [id                 |-> "goal-new",
   targetAmount       |-> goal.targetAmount,
   futureValue        |-> IF goal.inflationAdjust
                          THEN InflatedTarget(goal.targetAmount,
                                              st.configuration.inflationRate,
                                              goal.monthsAway)
                          ELSE 100 * MathRound(goal.targetAmount, 100),
   targetHalfMonths   |-> 2 * goal.monthsAway,
   inflationAdjust    |-> goal.inflationAdjust,
   priority           |-> 2,
   fundingType        |-> "cash",
   monthlyContribution |-> 0,
   currentValue       |-> goal.currentValue,
   downpaymentPercent |-> 20,
   downpaymentAmount  |-> 0,
   loanAmount         |-> 0,
   loanTenureYears    |-> 20,
   projectedEMI       |-> 0,
   expectedReturn     |-> 12,
   salaryIncrement    |-> 8,
   achievability      |-> Number(0)]

\* adjustGoalForInflation, for a target date yearsAway whole years from today
adjustGoalForInflation(params) ==
  IF params.yearsAway <= 0
  THEN [todayValue |-> params.currentCost,
        futureValue |-> params.currentCost,
        years |-> 0]
  ELSE
    LET rate == IF params.categoryInflation # Null
                THEN params.categoryInflation.v ELSE params.inflationRate
        fv   == futureValue(params.currentCost, params.yearsAway, rate)
    IN  [todayValue     |-> 100 * MathRound(params.currentCost, 100),
         futureValue    |-> 100 * MathRound(fv, 100),
         years          |-> params.yearsAway,
         inflationRate  |-> rate,
         totalInflation |-> IF params.currentCost = 0 THEN NaN
                            ELSE Number(MathRound(100 * (fv - params.currentCost),
                                                  params.currentCost))]

GoalFormsDrawn ==
  [targetAmount    : {50000, 100000},
   monthsAway      : (0 - 2)..MaxGoalMonths,
   inflationAdjust : BOOLEAN,
   currentValue    : {0}]

NoGoalForm ==
  [targetAmount |-> 0, monthsAway |-> 0, inflationAdjust |-> TRUE, currentValue |-> 0]

AdjustParamsDrawn ==
  [currentCost       : {50000},
   yearsAway         : (0 - 2)..MaxInflationYears,
   inflationRate     : {0, 6},
   categoryInflation : {Null, Number(10)}]

NoAdjustParams ==
  [currentCost |-> 0, yearsAway |-> 0, inflationRate |-> 6, categoryInflation |-> Null]

NotAdjusted == [years |-> 0 - 1]

\* the store addGoal is called on: one income, one trial, no goal yet
StoreBeforeGoal(inflationRate) ==
  [configuration |-> [taxRegime |-> "new", monteCarloIterations |-> 1,
                      inflationRate |-> inflationRate],
   entities |-> << [incomeStreams |-> << [amount |-> 5000000] >>,
                    expenses      |-> << >>,
                    liabilities   |-> << >>] >>,
   goals    |-> << >>]

AddGoalInit ==
  /\ \/ /\ apc = "addGoal"
        /\ goalForm \in GoalFormsDrawn
        /\ adjustParams = NoAdjustParams
        /\ \E inflationRate \in {0, 6} : state = StoreBeforeGoal(inflationRate)
     \/ /\ apc = "adjust"
        /\ goalForm = NoGoalForm
        /\ adjustParams \in AdjustParamsDrawn
        /\ state = StoreBeforeGoal(6)
  /\ adjusted = NotAdjusted
  /\ mpc = "idle"
  /\ dispensableIncome = 0

AddGoalIdle ==
  /\ goalForm = NoGoalForm
  /\ adjustParams = NoAdjustParams
  /\ apc = "idle"
  /\ adjusted = NotAdjusted

\* a call of adjustGoalForInflation
AdjustGoalCall ==
  /\ apc = "adjust"
  /\ adjusted' = adjustGoalForInflation(adjustParams)
  /\ apc' = "adjusted"
  /\ UNCHANGED << goalForm, adjustParams >>
  /\ UNCHANGED << storeVars, goalVars >>
  /\ UNCHANGED notAddGoalVars

\* addGoal up to its call of calculateGoalMetrics
AddGoalBegin ==
  /\ apc = "addGoal"
  /\ state' = [state EXCEPT !.goals = << NewGoal(goalForm, state) >>]
  /\ mpc' = "call"
  /\ apc' = "metrics"
  /\ UNCHANGED << goalForm, adjustParams, adjusted, dispensableIncome >>
  /\ UNCHANGED goalVars
  /\ UNCHANGED notAddGoalVars

\* calculateGoalMetrics has returned: the goal is pushed and returned
AddGoalEnd ==
  /\ apc = "metrics"
  /\ mpc = "done"
  /\ apc' = "done"
  /\ UNCHANGED << goalForm, adjustParams, adjusted >>
  /\ UNCHANGED << storeVars, goalVars >>
  /\ UNCHANGED notAddGoalVars

AddGoalNext ==
  \/ AdjustGoalCall
  \/ AddGoalBegin
  \/ MetricsBegin
  \/ TrialMonth
  \/ TrialEnd
  \/ GoalReturn
  \/ MetricsEnd
  \/ AddGoalEnd

\* ---------------------------------------------- MonteCarlo.simulatePortfolio
\* Amounts are in paise, expectedReturn and volatility in percent, years in
\* 24ths of a year, as for simulateGoal.

\* x || fallback for a number x: 0 is falsy
OrDefault(x, fallback) == IF x = 0 THEN fallback ELSE x

\* the assets drawn: a fixed deposit (Models.assetTypes.fd), cash that earns
\* nothing, and an equity fund
AssetsDrawn ==
  { [currentValue |-> 100000, monthlyContribution |-> 10000,
     expectedReturn |-> 7, volatility |-> 0],
    [currentValue |-> 100000, monthlyContribution |-> 10000,
     expectedReturn |-> 0, volatility |-> 0],
    [currentValue |-> 100000, monthlyContribution |-> 0,
     expectedReturn |-> 12, volatility |-> 15] }

\* the portfolios drawn: one asset, or two
PortfoliosDrawn ==
  { << a >> : a \in AssetsDrawn } \cup { << a, b >> : a, b \in AssetsDrawn }

PortfolioArgsDrawn ==
  [assets : PortfoliosDrawn, years24 : {2, 4}, iterations : {2}]

NoPortfolioResult == [mean |-> NaN]

\* asset.currentValue of the asset at index k, 0 past the last asset
ValueOfAsset(assets, k) ==
  IF k <= Len(assets) THEN assets[k].currentValue ELSE 0

PortfolioInit ==
  /\ portfolioArgs \in PortfolioArgsDrawn
  /\ ppc = "run"
  /\ pfResults = << >>
  /\ pfTrial = 0
  /\ totalValue = 0
  /\ assetIndex = 1
  /\ assetMonth = 0
  /\ assetValue = ValueOfAsset(portfolioArgs.assets, 1)
  /\ portfolioResult = NoPortfolioResult

PortfolioIdle ==
  /\ portfolioArgs = [assets |-> << >>, years24 |-> 0, iterations |-> 0]
  /\ ppc = "idle"
  /\ pfResults = << >>
  /\ pfTrial = 0
  /\ totalValue = 0
  /\ assetIndex = 1
  /\ assetMonth = 0
  /\ assetValue = 0
  /\ portfolioResult = NoPortfolioResult

\* one month of the asset the trial is at, with a fresh draw
AssetMonth ==
  /\ ppc = "run"
  /\ pfTrial < portfolioArgs.iterations
  /\ assetIndex <= Len(portfolioArgs.assets)
  /\ assetMonth < Months(portfolioArgs)
  /\ LET asset == portfolioArgs.assets[assetIndex]
         monthlyContribution == OrDefault(asset.monthlyContribution, 0)
         annualReturn     == OrDefault(asset.expectedReturn, 10)
         annualVolatility == OrDefault(asset.volatility, 15)
     IN  \E z \in NormalDraws :
           assetValue' = GrowPortfolio(assetValue,
                           generateMonthlyReturn(annualReturn, annualVolatility, z),
                           monthlyContribution)
  /\ assetMonth' = assetMonth + 1
  /\ UNCHANGED << portfolioArgs, ppc, pfResults, pfTrial, totalValue, assetIndex,
                  portfolioResult >>
  /\ UNCHANGED notPortfolioVars

\* the asset's months are over: add its value, go to the next asset
AssetEnd ==
  /\ ppc = "run"
  /\ pfTrial < portfolioArgs.iterations
  /\ assetIndex <= Len(portfolioArgs.assets)
  /\ assetMonth >= Months(portfolioArgs)
  /\ totalValue' = totalValue + assetValue
  /\ assetIndex' = assetIndex + 1
  /\ assetMonth' = 0
  /\ assetValue' = ValueOfAsset(portfolioArgs.assets, assetIndex + 1)
  /\ UNCHANGED << portfolioArgs, ppc, pfResults, pfTrial, portfolioResult >>
  /\ UNCHANGED notPortfolioVars

\* the trial's assets are over: push totalValue, start the next trial
PortfolioTrialEnd ==
  /\ ppc = "run"
  /\ pfTrial < portfolioArgs.iterations
  /\ assetIndex > Len(portfolioArgs.assets)
  /\ pfResults' = Append(pfResults, totalValue)
  /\ pfTrial' = pfTrial + 1
  /\ totalValue' = 0
  /\ assetIndex' = 1
  /\ assetMonth' = 0
  /\ assetValue' = ValueOfAsset(portfolioArgs.assets, 1)
  /\ UNCHANGED << portfolioArgs, ppc, portfolioResult >>
  /\ UNCHANGED notPortfolioVars

\* the trial loop is over: sort, take the percentiles and the mean, return
PortfolioReturn ==
  /\ ppc = "run"
  /\ pfTrial >= portfolioArgs.iterations
  /\ pfResults' = SortResults(pfResults)
  /\ portfolioResult' =
       [percentiles |->
          [p10 |-> RoundedElement(pfResults', PercentileIndex(portfolioArgs.iterations, 10)),
           p50 |-> RoundedElement(pfResults', PercentileIndex(portfolioArgs.iterations, 50)),
           p90 |-> RoundedElement(pfResults', PercentileIndex(portfolioArgs.iterations, 90))],
        mean |-> Mean(pfResults', portfolioArgs.iterations)]
  /\ ppc' = "done"
  /\ UNCHANGED << portfolioArgs, pfTrial, totalValue, assetIndex, assetMonth, assetValue >>
  /\ UNCHANGED notPortfolioVars

PortfolioNext == AssetMonth \/ AssetEnd \/ PortfolioTrialEnd \/ PortfolioReturn

\* ------------------------------------------------- LifeEvents.selectOption
\* Amounts are in paise.  Store.get('goals') hands out the store's own array,
\* so goals.sort orders state.goals itself and the priority goal is
\* state.goals[1], the goal updateGoal finds by its id and hands to
\* calculateGoalMetrics.  The notifications, closeModal and refresh are left
\* out.

Priority(goal) == goal.priority

\* Math.round(amount / 2), to the rupee
HalfAmount(amount) == 100 * MathRound(amount, 200)

\* what the option adds to the priority goal's monthlyContribution
AddedByOption(option, amount) ==
  CASE option = "accelerate" -> amount
    [] option = "split"      -> HalfAmount(amount)
    [] option = "lifestyle"  -> 0

Options == {"accelerate", "lifestyle", "split"}

\* a goal as addGoal left it in the store
StoredGoal(id, priority) ==
  LET goal == [id |-> id, priority |-> priority, targetHalfMonths |-> 3,
               fundingType |-> "cash", downpaymentAmount |-> 0,
               futureValue |-> 100000, currentValue |-> 0, expectedReturn |-> 12,
               monthlyContribution |-> 0]
  IN  [goal EXCEPT !.monthlyContribution = RequiredSIP(goal)]

HikeGoalsDrawn ==
  { << >> }
  \cup { << StoredGoal(1, p) >> : p \in 1..2 }
  \cup { << StoredGoal(1, p), StoredGoal(2, q) >> : p, q \in 1..2 }

HikesDrawn == { Null, [amount |-> 100000], [amount |-> 100100] }

NoSelection == [option |-> "none", hike |-> Null, before |-> 0]

LifeInit ==
  /\ currentHike \in HikesDrawn
  /\ lpc = "call"
  /\ selection = NoSelection
  /\ \E goals \in HikeGoalsDrawn :
       state = [configuration |-> [taxRegime |-> "new", monteCarloIterations |-> 1],
                entities |-> << [incomeStreams |-> << [amount |-> 5000000] >>,
                                 expenses      |-> << >>,
                                 liabilities   |-> << >>] >>,
                goals    |-> goals]
  /\ mpc = "idle"
  /\ dispensableIncome = 0

LifeIdle ==
  /\ currentHike = Null
  /\ lpc = "idle"
  /\ selection = NoSelection

\* a call of selectOption, up to its return or to its call of updateGoal
SelectOption ==
  /\ lpc \in {"call", "returned"}
  /\ \E option \in Options :
       IF currentHike = Null
       THEN /\ selection' = [option |-> option, hike |-> Null, before |-> 0]
            /\ lpc' = IF lpc = "call" THEN "returned" ELSE "twice"
            /\ UNCHANGED << currentHike, storeVars >>
       ELSE
         LET goals == SortAsc(state.goals, Priority)
             before == IF goals # << >> THEN goals[1].monthlyContribution ELSE 0
         IN  /\ selection' = [option |-> option, hike |-> currentHike, before |-> before]
             /\ IF goals # << >> /\ option \in {"accelerate", "split"}
                THEN /\ state' = [state EXCEPT !.goals =
                                    [goals EXCEPT ![1].monthlyContribution =
                                       before + AddedByOption(option, currentHike.amount)]]
                     /\ mpc' = "call"
                     /\ lpc' = "updating"
                     /\ UNCHANGED << currentHike, dispensableIncome >>
                ELSE /\ state' = [state EXCEPT !.goals = goals]
                     /\ currentHike' = Null
                     /\ lpc' = IF lpc = "call" THEN "returned" ELSE "twice"
                     /\ UNCHANGED << mpc, dispensableIncome >>
  /\ UNCHANGED goalVars
  /\ UNCHANGED notLifeVars

\* updateGoal has returned: the hike is cleared
SelectOptionEnd ==
  /\ lpc = "updating"
  /\ mpc = "done"
  /\ currentHike' = Null
  /\ lpc' = "returned"
  /\ UNCHANGED selection
  /\ UNCHANGED << storeVars, goalVars >>
  /\ UNCHANGED notLifeVars

LifeNext ==
  \/ SelectOption
  \/ MetricsBegin
  \/ TrialMonth
  \/ TrialEnd
  \/ GoalReturn
  \/ MetricsEnd
  \/ SelectOptionEnd

\* --------------------------------------------------------- specifications

\* createPayoffPlan on every drawn input, month by month
InitDebt ==
  DebtInit /\ TaxIdle /\ GoalIdle /\ SipIdle /\ WindfallIdle /\ StoreIdle /\ InflationIdle
  /\ AddGoalIdle /\ PortfolioIdle /\ LifeIdle

SpecDebt == InitDebt /\ [][DebtNext]_vars

\* calculateTax on every drawn input, then again on a higher gross income;
\* compareRegimes on every drawn input
InitTax ==
  DebtIdle /\ TaxInit /\ GoalIdle /\ SipIdle /\ WindfallIdle /\ StoreIdle /\ InflationIdle
  /\ AddGoalIdle /\ PortfolioIdle /\ LifeIdle

SpecTax == InitTax /\ [][TaxNext]_vars

\* calculateTax on gross incomes between the round figures
InitTaxRupees ==
  DebtIdle /\ TaxRupeesInit /\ GoalIdle /\ SipIdle /\ WindfallIdle /\ StoreIdle
  /\ InflationIdle /\ AddGoalIdle /\ PortfolioIdle /\ LifeIdle

SpecTaxRupees == InitTaxRupees /\ [][TaxRupeesNext]_vars

\* simulateGoal on every drawn input and every sequence of draws
InitGoal ==
  DebtIdle /\ TaxIdle /\ GoalInit /\ SipIdle /\ WindfallIdle /\ StoreIdle /\ InflationIdle
  /\ AddGoalIdle /\ PortfolioIdle /\ LifeIdle

SpecGoal == InitGoal /\ [][GoalNext]_vars

\* simulateGoal twice on the same params, every sequence of draws in each
InitGoalRepeat ==
  DebtIdle /\ TaxIdle /\ GoalRepeatInit /\ SipIdle /\ WindfallIdle /\ StoreIdle /\ InflationIdle
  /\ AddGoalIdle /\ PortfolioIdle /\ LifeIdle

SpecGoalRepeat == InitGoalRepeat /\ [][GoalRepeatNext]_vars

\* calculateRequiredSIP on every drawn input, then again with more saved or
\* less to reach
InitSip ==
  DebtIdle /\ TaxIdle /\ GoalIdle /\ SipInit /\ WindfallIdle /\ StoreIdle /\ InflationIdle
  /\ AddGoalIdle /\ PortfolioIdle /\ LifeIdle

SpecSip == InitSip /\ [][SipNext]_vars

\* calculateWindfallImpact on every drawn input, both of its
\* calculateYearsToTarget runs month by month
InitWindfall ==
  DebtIdle /\ TaxIdle /\ GoalIdle /\ SipIdle /\ WindfallInit /\ StoreIdle /\ InflationIdle
  /\ AddGoalIdle /\ PortfolioIdle /\ LifeIdle

SpecWindfall == InitWindfall /\ [][WindfallNext]_vars

\* calculateGoalMetrics on every drawn store and goal, its simulateGoal run
\* month by month
InitStore ==
  DebtIdle /\ TaxIdle /\ GoalIdle /\ SipIdle /\ WindfallIdle /\ StoreInit /\ InflationIdle
  /\ AddGoalIdle /\ PortfolioIdle /\ LifeIdle

SpecStore == InitStore /\ [][StoreNext]_vars

\* futureValue on every drawn input, then presentValue on what it returned
InitInflation ==
  DebtIdle /\ TaxIdle /\ GoalIdle /\ SipIdle /\ WindfallIdle /\ StoreIdle /\ InflationInit
  /\ AddGoalIdle /\ PortfolioIdle /\ LifeIdle

SpecInflation == InitInflation /\ [][InflationNext]_vars

\* addGoal on every drawn goal and configuration, with its
\* calculateGoalMetrics run; adjustGoalForInflation on every drawn input
InitAddGoal ==
  DebtIdle /\ TaxIdle /\ GoalIdle /\ SipIdle /\ WindfallIdle /\ InflationIdle
  /\ AddGoalInit /\ PortfolioIdle /\ LifeIdle

SpecAddGoal == InitAddGoal /\ [][AddGoalNext]_vars

\* simulatePortfolio on every drawn portfolio and every sequence of draws
InitPortfolio ==
  DebtIdle /\ TaxIdle /\ GoalIdle /\ SipIdle /\ WindfallIdle /\ StoreIdle
  /\ InflationIdle /\ AddGoalIdle /\ PortfolioInit /\ LifeIdle

SpecPortfolio == InitPortfolio /\ [][PortfolioNext]_vars

\* selectOption, twice, on every drawn store, hike and option
InitLife ==
  DebtIdle /\ TaxIdle /\ GoalIdle /\ SipIdle /\ WindfallIdle /\ InflationIdle
  /\ AddGoalIdle /\ PortfolioIdle /\ LifeInit

SpecLife == InitLife /\ [][LifeNext]_vars

\* ------------------------------------------------- claims: DebtSnowball

PlanReturned == dpc = "done" /\ Len(liabilities) > 0

DebtNamed(name) == debts[CHOOSE i \in 1..Len(debts) : debts[i].name = name]

\* C1: whatever the debts, the extra payment and the method, the plan is never
\* worse than the minimum-payments baseline: monthsSaved >= 0 and
\* interestSaved >= 0, also for debts whose EMI does not cover the interest
\* and for runs that end at the 600-month cap.
C1_NeverWorseThanBaseline ==
  PlanReturned =>
    /\ payoff.summary.monthsSaved >= 0
    /\ payoff.summary.interestSaved >= 0

\* the installments of the debts that reached zero balance in an earlier month
FreedBefore ==
  SumSeq([i \in 1..Len(debts) |->
            IF debts[i].balance = 0 /\ debts[i].monthsPaid < month
            THEN debts[i].emi ELSE 0])

\* C2: the waterfall is persistent: in every month after a debt reached zero
\* balance, its EMI is added, with extraPayment, to the payment of the first
\* debt that is still active (here: whenever that payment is not cut down by
\* the cap at balance plus interest, i.e. the debt stays active).
C2_PersistentWaterfall ==
  (month >= 1 /\ monthPlan.payments # << >>) =>
    LET row == monthPlan.payments[1]
        d   == DebtNamed(row.name)
    IN  d.balance > 0 =>
          row.payment = MathRound(d.emi + extraPayment + FreedBefore, 100)

IsLoan24(l) == l.principal = 10000000 /\ l.interestRate = 24 /\ l.emi = 500000

IsLoan9(l) == l.principal = 50000000 /\ l.interestRate = 9 /\ l.emi = 600000

\* the two debts of the scenario, in either order, avalanche, 2,000 extra
Scenario3 ==
  /\ method = "avalanche"
  /\ extraPayment = 200000
  /\ Len(liabilities) = 2
  /\ \E a, b \in 1..2 : a # b /\ IsLoan24(liabilities[a]) /\ IsLoan9(liabilities[b])

Name24 == liabilities[CHOOSE a \in 1..2 : IsLoan24(liabilities[a])].name

Name9 == liabilities[CHOOSE b \in 1..2 : IsLoan9(liabilities[b])].name

PaymentTo(name) ==
  LET rows == monthPlan.payments
      hit  == {i \in 1..Len(rows) : rows[i].name = name}
  IN  IF hit = {} THEN 0 ELSE rows[CHOOSE i \in hit : TRUE].payment

\* C3: in the scenario the 24% debt gets the extra payment in month 1 (7,000
\* against the 9% debt's plain 6,000), and it reaches zero balance in a
\* strictly earlier month than the 9% debt.
C3_AvalancheScenario ==
  Scenario3 =>
    /\ monthPlan.month = 1 => PaymentTo(Name24) = 7000 /\ PaymentTo(Name9) = 6000
    /\ (dpc # "call" /\ DebtNamed(Name9).balance = 0) =>
         /\ DebtNamed(Name24).balance = 0
         /\ DebtNamed(Name24).monthsPaid < DebtNamed(Name9).monthsPaid
    /\ dpc = "done" =>
         /\ DebtNamed(Name9).balance = 0
         /\ payoff.debts[1].name = Name24
         /\ payoff.debts[1].monthsToPay < payoff.debts[2].monthsToPay

C3_Witness ==
  /\ Scenario3
  /\ dpc = "done"
  /\ DebtNamed(Name24).balance = 0
  /\ DebtNamed(Name9).balance = 0
  /\ DebtNamed(Name24).monthsPaid >= 1


\* ------------------------------------------------ claims: TaxCalculator

\* C4: with the regime and every other input fixed, totalTax never falls when
\* grossIncome rises, the rebate threshold and the surcharge breakpoints
\* included.
C4_TaxMonotone ==
  tpc = "compared" => prevTax.totalTax <= taxResult.totalTax

\* a pair of calls across a surcharge breakpoint and one across the rebate
\* threshold are among the pairs compared
C4_Witness ==
  /\ tpc = "compared"
  /\ prevTax.breakdown.taxableIncome = 5000000
  /\ taxResult.breakdown.taxableIncome > 5000000
  /\ prevTax.totalTax < taxResult.totalTax
  /\ taxResult.surcharge > 0

\* C5: 1,200,000 gross under the new regime with no deductions gives taxable
\* income 1,125,000 and a base tax of exactly 52,500.
C5_NewRegimeScenario ==
  (/\ tpc = "returned"
   /\ taxParams = [grossIncome |-> 1200000, regime |-> "new"] @@ NoDeductions) =>
    /\ taxResult.breakdown.taxableIncome = 1125000
    /\ taxResult.baseTax = 52500

C5_Witness ==
  /\ tpc = "returned"
  /\ taxParams = [grossIncome |-> 1200000, regime |-> "new"] @@ NoDeductions
  /\ taxResult.baseTax = 52500


\* --------------------------------------------------- claims: MonteCarlo

GoalReturned == gpc = "done" /\ goalParams.iterations >= 1

\* the seven order statistics of the result
OrderStatistics ==
  << goalResult.min, goalResult.percentiles.p10, goalResult.percentiles.p25,
     goalResult.percentiles.p50, goalResult.percentiles.p75,
     goalResult.percentiles.p90, goalResult.max >>

ZeroYearsProbability ==
  goalResult.probability =
    Number(IF goalParams.currentAmount >= goalParams.targetAmount THEN 100 ELSE 0)

\* C6, as claimed: with iterations >= 1 and years = 0 the probability is 1 or
\* 0 as currentAmount >= targetAmount, and every percentile, min and max
\* equals currentAmount.
C6_ZeroYearsExact ==
  (GoalReturned /\ goalParams.years24 = 0) =>
    /\ ZeroYearsProbability
    /\ \A k \in 1..7 : /\ OrderStatistics[k].kind = "number"
                       /\ 100 * OrderStatistics[k].v = goalParams.currentAmount

\* C6, amended: ... and every percentile, min and max equals currentAmount
\* rounded to the nearest rupee (currentAmount itself when it is whole).
C6_ZeroYearsRounded ==
  (GoalReturned /\ goalParams.years24 = 0) =>
    /\ ZeroYearsProbability
    /\ \A k \in 1..7 :
         /\ OrderStatistics[k].kind = "number"
         /\ 100 * OrderStatistics[k].v - 50 <= goalParams.currentAmount
         /\ goalParams.currentAmount < 100 * OrderStatistics[k].v + 50
         /\ goalParams.currentAmount % 100 = 0 =>
              100 * OrderStatistics[k].v = goalParams.currentAmount

C6_Witness ==
  /\ GoalReturned
  /\ goalParams.years24 = 0
  /\ goalParams.iterations = 3
  /\ goalParams.currentAmount = 100050
  /\ goalParams.targetAmount = 100000
  /\ goalResult.percentiles.p50 = Number(1001)
  /\ goalResult.probability = Number(100)

\* the trials whose terminal value is at least the target
Successes == Cardinality({k \in 1..Len(results) : results[k] >= goalParams.targetAmount})

\* C7, as claimed: the returned probability is exactly successCount /
\* iterations.
C7_ProbabilityExact ==
  GoalReturned =>
    /\ goalResult.probability.kind = "number"
    /\ goalResult.probability.v * goalParams.iterations = 100 * Successes

\* C7, amended: the returned probability is successCount / iterations rounded
\* to the nearest hundredth.
C7_ProbabilityRounded ==
  GoalReturned =>
    /\ goalResult.probability.kind = "number"
    /\ Len(results) = goalParams.iterations
    /\ LET off == goalResult.probability.v * goalParams.iterations - 100 * Successes
       IN  2 * off <= goalParams.iterations /\ 2 * (0 - off) <= goalParams.iterations

C7_Witness ==
  /\ GoalReturned
  /\ goalParams.iterations = 3
  /\ Successes = 1
  /\ goalResult.probability = Number(33)

\* C8: with iterations >= 1 the percentile p is the sorted terminal values'
\* entry at index floor(iterations * p), min the entry at 0 and max the one
\* at iterations - 1, so min <= p10 <= p25 <= p50 <= p75 <= p90 <= max.
C8_PercentilesOrdered ==
  GoalReturned =>
    LET n == goalParams.iterations
        at(k) == Number(MathRound(results[k + 1], 100))
    IN  /\ \A k \in 1..(n - 1) : results[k] <= results[k + 1]
        /\ OrderStatistics =
             << at(0), at((n * 10) \div 100), at((n * 25) \div 100), at((n * 50) \div 100),
                at((n * 75) \div 100), at((n * 90) \div 100), at(n - 1) >>
        /\ \A k \in 1..6 : OrderStatistics[k].v <= OrderStatistics[k + 1].v

C8_Witness ==
  /\ GoalReturned
  /\ goalParams.iterations = 3
  /\ goalResult.min.v < goalResult.percentiles.p50.v
  /\ goalResult.percentiles.p50.v < goalResult.max.v

\* C9: simulateGoal with iterations <= 0 fails with an explicit error result;
\* it returns no result whose probability, percentiles or mean are NaN from a
\* division by zero or from indexing the empty sample.
C9_NonPositiveIterationsRejected ==
  (gpc = "done" /\ goalParams.iterations <= 0) =>
    /\ goalResult.probability.kind # "NaN"
    /\ goalResult.mean.kind # "NaN"
    /\ \A k \in 1..7 : OrderStatistics[k].kind # "NaN"

\* C10: with an annual rate of 0 and a positive remaining amount,
\* calculateRequiredSIP returns round(remaining / months), a finite
\* non-negative number (checked for horizons of at least a year).
C10_ZeroRateLinearFallback ==
  (/\ spc = "returned"
   /\ sipParams.expectedReturn = 0
   /\ sipParams.years >= 1
   /\ sipParams.targetAmount - sipParams.currentAmount > 0) =>
    sipResult = Number(MathRound(sipParams.targetAmount - sipParams.currentAmount,
                                 sipParams.years * 12))

\* a <= b as JavaScript compares two results: false when either is NaN
LessOrEqual(a, b) ==
  /\ a.kind # "NaN"
  /\ b.kind # "NaN"
  /\ \/ b.kind = "Infinity"
     \/ a.kind = "number" /\ b.kind = "number" /\ a.v <= b.v

\* C11: with years and rate held fixed, calculateRequiredSIP does not
\* increase when currentAmount grows and does not increase when targetAmount
\* shrinks, and it returns 0, never a negative number, whenever the
\* compounded current amount meets or exceeds the target.
C11_RequiredSipMonotone ==
  /\ spc = "compared" => LessOrEqual(sipResult, prevSip)
  /\ spc \in {"returned", "compared"} =>
       /\ sipResult.kind = "number" => sipResult.v >= 0
       /\ MulDiv(PowMonthly(sipParams.expectedReturn, sipParams.years * 12),
                 sipParams.currentAmount, 1000000) >= sipParams.targetAmount
            => sipResult = Number(0)

\* the same, for the rates the annuity formula can divide by
RequiredSipMonotoneAtPositiveRate ==
  sipParams.expectedReturn > 0 => C11_RequiredSipMonotone

\* ---------------------------------- claims: years to target and windfall

\* a calculateYearsToTarget call has just returned r, with its locals in
\* ytMonths and ytValue
YearsReturned(r) ==
  \/ wpc = "returnedWithout" /\ r = monthsWithoutWindfall
  \/ wpc = "returnedWith" /\ r = monthsWithWindfall

\* C12: calculateYearsToTarget stops after at most 600 monthly steps; when
\* the accumulated value has reached targetAmount after some m <= 600 months
\* it returns that m (the loop stops at the first such month), and it returns
\* null only when the target is still not met after 600 months.
C12_YearsToTargetWithinCap ==
  \A r \in {monthsWithoutWindfall, monthsWithWindfall} :
    YearsReturned(r) =>
      /\ ytMonths <= MaxTargetMonths
      /\ ytValue >= windfallParams.targetAmount => r = Number(ytMonths)
      /\ r = Null => ytValue < windfallParams.targetAmount

\* both calculateYearsToTarget runs reached the target within 600 months
BothReached ==
  /\ wpc = "done"
  /\ \E m \in 0..MaxTargetMonths : monthsWithoutWindfall = Number(m)
  /\ \E m \in 0..MaxTargetMonths : monthsWithWindfall = Number(m)

\* C13: when both runs reach the target within the horizon,
\* calculateWindfallImpact returns a result whose monthsSaved is
\* monthsWithoutWindfall - monthsWithWindfall, also when the windfall alone
\* already meets the target (monthsWithWindfall = 0).
C13_MonthsSaved ==
  BothReached =>
    /\ windfallImpact.kind = "object"
    /\ windfallImpact.monthsSaved = monthsWithoutWindfall.v - monthsWithWindfall.v

\* ----------------------------------------- claims: Store.calculateGoalMetrics

\* the month's tax on the household's income as the Tax Engine computes it
\* for the configured regime, in paise
MonthlyTax(st) ==
  100 * calculateTax([grossIncome |-> 12 * (calculateTotalMonthlyIncome(st) \div 100),
                      regime |-> st.configuration.taxRegime] @@ NoDeductions).monthlyTax

\* C14: the monthlyContribution calculateGoalMetrics passes to simulateGoal
\* is the disposable income, gross income - tax - expenses - existing EMIs -
\* other goals' contributions floored at 0, and not the required
\* contribution; the Tax Engine's tax is subtracted.
C14_DisposableIncomeNetOfTax ==
  mpc \in {"simulate", "done"} =>
    goalParams.monthlyContribution =
      Max(0, calculateTotalMonthlyIncome(state) - MonthlyTax(state)
             - calculateTotalMonthlyExpenses(state) - TotalEMIs(state)
             - OtherGoalsSIP(state, state.goals[1]))

\* what the code passes: the same without the tax
ContributionIsGrossDisposable ==
  mpc \in {"simulate", "done"} =>
    goalParams.monthlyContribution =
      Max(0, calculateTotalMonthlyIncome(state)
             - calculateTotalMonthlyExpenses(state) - TotalEMIs(state)
             - OtherGoalsSIP(state, state.goals[1]))

\* ------------------------------------------------- claims: compareRegimes

RegimesCompared == tpc = "regimes"

\* C15: compareRegimes recommends the regime whose totalTax is smaller, and
\* recommends "new" when the two totals are equal.
C15_RecommendsCheaperTiesNew ==
  RegimesCompared =>
    comparison.recommendedRegime =
      (IF comparison.old.totalTax < comparison.new.totalTax THEN "old" ELSE "new")

\* C16 as stated: the reported savings is the signed difference old minus
\* new, negative when the old regime is cheaper and positive when the new
\* regime is cheaper.
C16_SavingsSigned ==
  RegimesCompared =>
    comparison.savings = comparison.old.totalTax - comparison.new.totalTax

\* C16: the reported savings is the magnitude of the difference between the
\* two totals, never negative; recommendedRegime tells which regime it is in
\* favour of when the totals differ.
C16_SavingsMagnitude ==
  RegimesCompared =>
    LET oldTax == comparison.old.totalTax
        newTax == comparison.new.totalTax
    IN  /\ comparison.savings >= 0
        /\ comparison.savings \in {oldTax - newTax, newTax - oldTax}
        /\ oldTax < newTax => comparison.recommendedRegime = "old"
        /\ newTax < oldTax => comparison.recommendedRegime = "new"

\* the old regime is the cheaper one, by a difference the result reports
C16_Witness ==
  /\ RegimesCompared
  /\ comparison.old.totalTax < comparison.new.totalTax
  /\ comparison.savings > 0

\* ----------------------------------------- claims: the 600-month horizon

\* a createPayoffPlan result of the ordinary shape, with an ordinary count
OrdinaryResult(p) ==
  /\ DOMAIN p = {"method", "debts", "summary"}
  /\ DOMAIN p.summary = {"totalMonths", "totalPaid", "monthsSaved", "interestSaved"}
  /\ p.summary.totalMonths \in 0..MaxMonths

\* C17: when the payoff does not bring every balance to zero within 600
\* months, createPayoffPlan reports something that can be told apart from an
\* ordinary result with months = 600, and so does simulateMinimumPayments,
\* whose month count is what createPayoffPlan reads as withoutExtra.months.
C17_UnreachableSentinel ==
  PlanReturned =>
    /\ SomeBalance(debts) => ~OrdinaryResult(payoff)
    /\ SomeBalance(minDebts) => minMonth \notin 0..MaxMonths

\* ------------------------------------- claims: the composition of the tax

TaxReturned == tpc \in {"returned", "compared"}

\* the part of [0, income] that lies in the slab
Overlap(income, slab) == Max(0, Min(income, slab.max) - slab.min)

\* first min 0, each max the next min, last max unbounded
Contiguous(slabs) ==
  /\ slabs[1].min = 0
  /\ \A k \in 1..(Len(slabs) - 1) : slabs[k].max = slabs[k + 1].min
  /\ slabs[Len(slabs)].max = Infinity

\* C18: for each regime the slab table is contiguous, and the slab tax
\* before the rebate (the returned baseTax plus the rebate taken off it) is
\* the sum over the slabs of rate times the overlap of [0, taxable income]
\* with the slab.  Both sides are in thousandths of a rupee.
C18_SlabTaxIsOverlapSum ==
  /\ Contiguous(taxSlabs.old.slabs)
  /\ Contiguous(taxSlabs.new.slabs)
  /\ TaxReturned =>
       LET slabs == taxSlabs[taxResult.regime].slabs
           T     == taxResult.breakdown.taxableIncome
       IN  10 * (10 * taxResult.baseTax + taxResult.breakdown.rebate87A) =
             SumSeq([k \in 1..Len(slabs) |-> slabs[k].rate * Overlap(T, slabs[k])])

\* a taxable income past the third slab's upper edge, out of the rebate's reach
C18_Witness ==
  /\ TaxReturned
  /\ taxResult.breakdown.taxableIncome > taxSlabs[taxResult.regime].slabs[3].max
  /\ taxResult.breakdown.rebate87A = 0
  /\ taxResult.baseTax > 0

\* the single surcharge rate of the bracket, in percent
BracketRate(T) ==
  CASE T <= 5000000  -> 0
    [] T > 5000000  /\ T <= 10000000 -> 10
    [] T > 10000000 /\ T <= 20000000 -> 15
    [] T > 20000000 /\ T <= 50000000 -> 25
    [] T > 50000000 -> 37

\* C19: the total is B + S + C + G, with B the slab tax after the rebate, S
\* the bracket's single surcharge rate times B, C 4% of B + S, and G 12.5%
\* of the long-term gains above 125,000 plus 20% of the short-term gains.
\* The amounts are in tenths of a rupee, in which they are exact for the
\* inputs drawn; the returned fields are these amounts rounded to the rupee.
C19_TotalIsSumOfParts ==
  TaxReturned =>
    LET B == 10 * taxResult.baseTax
        S == MulDiv(B, BracketRate(taxResult.breakdown.taxableIncome), 100)
        C == MulDiv(B + S, 4, 100)
        G == MulDiv(Max(0, taxParams.ltcg - 125000), 125, 100) + 2 * taxParams.stcg
    IN  /\ taxResult.surcharge = MathRound(S, 10)
        /\ taxResult.cess = MathRound(C, 10)
        /\ taxResult.capitalGainsTax = MathRound(G, 10)
        /\ taxResult.totalTax = MathRound(B + S + C + G, 10)

\* a result with all four parts positive
C19_Witness ==
  /\ TaxReturned
  /\ taxResult.baseTax > 0
  /\ taxResult.surcharge > 0
  /\ taxResult.cess > 0
  /\ taxResult.capitalGainsTax > 0
  /\ taxResult.totalTax > taxResult.baseTax + taxResult.surcharge

\* ------------------------------------------------------ claims: Inflation

\* C20: for an amount X > 0, whole years Y >= 0 and a rate R >= 0,
\* presentValue(futureValue(X, Y, R), Y, R) gives X back, to within the one
\* paisa the amounts are carried in.
C20_RoundTrip ==
  (ipc = "present" /\ inflationArgs.amount > 0) =>
    Abs(deflated - inflationArgs.amount) <= 1

\* a round trip through an amount that inflation has raised
C20_Witness ==
  /\ ipc = "present"
  /\ inflationArgs.amount > 0
  /\ inflationArgs.years >= 2
  /\ inflated > inflationArgs.amount

\* ------------------------------------------------- claims: reproducibility

\* a second simulateGoal call on the same inputs has returned
CalledTwice == gpc = "done" /\ prevGoal # NoGoalResult

\* C21: two simulateGoal calls with identical inputs and the same seed
\* return identical results (probability, percentiles, mean, min, max).
\* The params carry no seed, so any two calls on the same params qualify.
C21_SameSeedSameResult ==
  CalledTwice => goalResult = prevGoal

\* ------------------------------------- claims: the debt engine's payments

MonthTaken == month' = month + 1

\* the first debt, in the sorted order, with a positive balance
FirstActive(ds) == CHOOSE i \in 1..Len(ds) : IsFirstActive(ds, i)

\* C23: in every month of createPayoffPlan only the first debt, in the
\* method's sort order, that has a positive balance at the start of the month
\* receives the extra payment; every other debt is paid at most its own EMI
\* in that month.
C23_ExtraToOneDebt ==
  [][MonthTaken =>
       \A k \in 1..Len(monthPlan'.payments) :
         LET row == monthPlan'.payments[k]
         IN  row.name # debts[FirstActive(debts)].name =>
               100 * row.payment <= DebtNamed(row.name).emi]_vars

\* what the month's step paid to the debt at index i, in paise
PaidInStep(i) == debts'[i].paid - debts[i].paid

MinimumPaidInStep(i) == minDebts'[i].paid - minDebts[i].paid

\* C24: every payment applied to a debt is at most its balance plus the
\* interest accrued this month, so every balance stays >= 0, and a debt whose
\* balance has reached 0 is paid nothing more; in createPayoffPlan and in
\* simulateMinimumPayments.
C24_PaymentsCapped ==
  [][/\ \A i \in 1..Len(debts') : debts'[i].balance >= 0
     /\ \A i \in 1..Len(debts) :
          /\ PaidInStep(i) <= debts[i].balance
                              + MulDiv(debts[i].balance, debts[i].interestRate, 1200)
          /\ debts[i].balance = 0 => PaidInStep(i) = 0
     /\ \A i \in 1..Len(minDebts') : minDebts'[i].balance >= 0
     /\ \A i \in 1..Len(minDebts) :
          /\ MinimumPaidInStep(i) <= minDebts[i].balance
                                     + MulDiv(minDebts[i].balance, minDebts[i].rate, 1200)
          /\ minDebts[i].balance = 0 => MinimumPaidInStep(i) = 0]_vars

\* a plan in which one debt was paid off months before the other, its last
\* payment cut down to what was still owed
C24_Witness ==
  /\ PlanReturned
  /\ Len(debts) = 2
  /\ debts[1].balance = 0
  /\ debts[2].balance = 0
  /\ debts[1].monthsPaid + 2 <= debts[2].monthsPaid
  /\ debts[1].paid < debts[1].monthsPaid * debts[1].emi

\* C27: in every simulated month of createPayoffPlan the payments to all
\* debts together are at most the sum of all debts' EMIs plus extraPayment.
C27_MonthlyBudget ==
  [][MonthTaken =>
       SumSeq([i \in 1..Len(debts) |-> PaidInStep(i)])
         <= SumSeq([i \in 1..Len(debts) |-> debts[i].emi]) + extraPayment]_vars

\* ------------------------------------------ claims: the plan loop's length

StillOwed == \E i \in 1..Len(debts) : debts[i].balance > 0

\* C25 as stated: plan.length = summary.totalMonths <= 600, and the loop
\* ends before month 600 exactly when all balances reached zero.
C25_EndsEarlyIffPaidOff ==
  PlanReturned =>
    /\ planLen = payoff.summary.totalMonths
    /\ payoff.summary.totalMonths <= 600
    /\ payoff.summary.totalMonths < 600 <=> ~StillOwed

\* C25: the month loop never passes 600 months and takes a month only while
\* something was owed at its start, so plan.length = summary.totalMonths <=
\* 600; a loop that ends before month 600 has brought every balance to zero,
\* and one that ends with a balance left has run the full 600 months.
C25_PlanLoopBounded ==
  /\ month <= 600
  /\ planLen = month
  /\ month >= 1 => Len(monthPlan.payments) >= 1
  /\ PlanReturned =>
       /\ planLen = payoff.summary.totalMonths
       /\ payoff.summary.totalMonths <= 600
       /\ payoff.summary.totalMonths < 600 => ~StillOwed
       /\ StillOwed => payoff.summary.totalMonths = 600

\* a payoff completed by the 600th installment: every balance is zero and
\* the loop has not ended before month 600
C25_Witness ==
  /\ PlanReturned
  /\ ~StillOwed
  /\ payoff.summary.totalMonths = 600
  /\ planLen = 600

\* ------------------------------------------ claims: inflation of a goal

\* C26: for any target date, one at or before today included, and any
\* inflation rate >= 0, the inflation-adjusted futureValue that addGoal
\* stores is at least the goal's targetAmount, and the futureValue that
\* adjustGoalForInflation returns is at least the currentCost it was given.
C26_FutureValueNotBelowTarget ==
  /\ (apc = "done" /\ state.goals[1].inflationAdjust) =>
       state.goals[1].futureValue >= state.goals[1].targetAmount
  /\ apc = "adjusted" => adjusted.futureValue >= adjustParams.currentCost

\* the same for adjustGoalForInflation alone, which floors years at 0
AdjustedNotBelowCost ==
  apc = "adjusted" => adjusted.futureValue >= adjustParams.currentCost

\* --------------------------------------- claims: the tax result's fields

\* C28: the result of calculateTax is consistent with itself: the returned
\* totalTax is the sum of the returned baseTax, surcharge, cess and
\* capitalGainsTax.
C28_TotalIsSumOfFields ==
  TaxReturned =>
    taxResult.totalTax = taxResult.baseTax + taxResult.surcharge
                         + taxResult.cess + taxResult.capitalGainsTax

\* the returned total is never more than two rupees from the sum of the
\* returned fields
TotalNearSumOfFields ==
  TaxReturned =>
    Abs(taxResult.totalTax - (taxResult.baseTax + taxResult.surcharge
                              + taxResult.cess + taxResult.capitalGainsTax)) <= 2

\* --------------------------------------------- claims: simulatePortfolio

AllVolatilityZero ==
  \A k \in 1..Len(portfolioArgs.assets) : portfolioArgs.assets[k].volatility = 0

\* the portfolio is one asset with expectedReturn 0 and volatility 0
OneIdleAsset ==
  /\ Len(portfolioArgs.assets) = 1
  /\ portfolioArgs.assets[1].expectedReturn = 0
  /\ portfolioArgs.assets[1].volatility = 0

\* C29: simulatePortfolio uses each asset's own expectedReturn and
\* volatility, 0 included: when every asset has volatility 0 all trials end
\* at one value, so p10 = p50 = p90 = mean, and an asset with expectedReturn
\* 0 and volatility 0 ends at currentValue + months * monthlyContribution.
C29_ZeroVolatilityIsDeterministic ==
  ppc = "done" =>
    /\ AllVolatilityZero =>
         /\ portfolioResult.percentiles.p10 = portfolioResult.percentiles.p50
         /\ portfolioResult.percentiles.p50 = portfolioResult.percentiles.p90
         /\ portfolioResult.percentiles.p90 = portfolioResult.mean
    /\ OneIdleAsset =>
         portfolioResult.mean =
           Number(MathRound(portfolioArgs.assets[1].currentValue
                            + Months(portfolioArgs) * portfolioArgs.assets[1].monthlyContribution,
                            100))

\* ------------------------------------------------ claims: the salary hike

\* the first call of selectOption returns in this step
FirstCallReturns == lpc # "returned" /\ lpc' = "returned"

\* the second call of selectOption returns in this step
SecondCallReturns == lpc = "returned" /\ lpc' = "twice"

\* C30: when selectOption('accelerate') returns, having found a pending hike
\* of amount A > 0 and at least one goal, the highest-priority goal's stored
\* monthlyContribution is its value before the call plus A, and after
\* 'split' plus round(A / 2); in every case currentHike is null afterwards,
\* and a second call of selectOption changes nothing.
C30_HikeReachesPriorityGoal ==
  [][ /\ FirstCallReturns =>
           /\ currentHike' = Null
           /\ (selection'.hike # Null /\ state'.goals # << >>
               /\ selection'.option \in {"accelerate", "split"}) =>
                state'.goals[1].monthlyContribution =
                  selection'.before + AddedByOption(selection'.option, selection'.hike.amount)
      /\ SecondCallReturns => UNCHANGED << currentHike, storeVars >> ]_vars

\* the hike is cleared by the first call and the second call changes nothing
HikeClearedOnce ==
  [][ /\ FirstCallReturns => currentHike' = Null
      /\ SecondCallReturns => UNCHANGED << currentHike, storeVars >> ]_vars

=============================================================================
